---- MODULE Spec2Model ----
(***************************************************************************)
(* CloakTalk matchmaking engine and session gateway.                       *)
(*                                                                         *)
(* The store is the three tables of base/models.py (WaitingListEntry,      *)
(* Chat, Message) plus the read-only User table.  Table rows are kept in   *)
(* insertion order; WaitingListEntry.created_at is the wall clock in whole    *)
(* seconds and the position of a row carries the sub-second order of       *)
(* insertion, so "order_by created_at" is the table order.  Chat.created_at *)
(* is only ever compared with other chats' created_at; distinct chats have *)
(* distinct timestamps, so it is kept as the rank of the creation instant. *)
(*                                                                         *)
(* Spec         try_match_users, called on the database the service is     *)
(*              started on, and the clock.                                 *)
(* SpecMatcher  find_match, called on the database it is asked about.      *)
(* SpecQueue    add_to_waiting_list and remove_from_waiting_list, called   *)
(*              with any user and scope.                                   *)
(* SpecGateway  the queue handlers of the websocket consumers, the REST    *)
(*              views and the delayed tasks, one handler per step.         *)
(* SpecLifetime connections that are matched, part and are matched again.  *)
(* SpecChat     the chat handlers of the websocket consumers.              *)
(* SpecRace     the handlers that join, match and end run as the separate  *)
(*              database statements they are made of, interleaved between  *)
(*              the requests in flight.                                    *)
(* SpecConnect  connections opening, closing and receiving frames that     *)
(*              are no request.                                            *)
(* SpecCreate   create_chat, called with any pair and scope.               *)
(* SpecTyping   the typing indicators of two users in a chat.              *)
(* SpecScopes   find_match and try_match_users on waiting lists in which   *)
(*              a user holds entries under several colleges.               *)
(* SpecTown     users of two colleges and a service account join, end      *)
(*              chats and join again through the REST views.               *)
(* SpecRoom     three users and one chat: connections open, join the chat  *)
(*              by id, send and close.                                     *)
(* SpecRepeat   find_match on chat histories of repeated pairs, where      *)
(*              chats created in the same instant share a created_at.      *)
(* SpecRematch  four users who have all chatted before join the queue;     *)
(*              SpecRematchFair adds that delayed tasks run and time       *)
(*              passes.                                                    *)
(***************************************************************************)
EXTENDS Integers, Sequences, FiniteSets, TLC

\* ------------------------------------------------------------------ bounds
MaxPool == 3
MaxHistory == 3
MaxMatcherHistory == 2
MaxJoinTime == 1
MaxTime == 6
MaxGatewayTime == 6
MaxGatewayChats == 1
MaxLifetimeChats == 2
MaxInbox == 2
MaxTimers == 1
MaxChatTimers == 0
MaxConnectChats == 1
MaxCreateChats == 2
MaxTexts == 1
MaxChatChats == 1
MaxRaceChats == 2
MaxRequests == 2
MaxQueue == 3
MaxQueueTime == 2
MaxRematchJoin == 5
MaxRematchTimers == 1
MaxRepeatHistory == 4
MaxTownChats == 2
MaxChatTime == 2
MaxRoomChats == 1
MaxRoomTexts == 1

\* --------------------------------------------------------- program constants
WaitThreshold == 5
DelaySeconds == 6
UserChannel == -1
CollegeChannel == -2

None == "None"
NoChat == 0
NoTime == -1
NoMatch == << >>
Colleges == {"c1", "c2"}

\* The user populations (accounts.User rows: the college foreign key and the
\* is_service_account flag).
Campus ==
  [u \in {"a", "b", "c"} |-> [college |-> "c1", is_service_account |-> FALSE]]
Quad ==
  [u \in {"a", "b", "c", "s"} |->
     IF u = "s" THEN [college |-> "c2", is_service_account |-> TRUE]
     ELSE [college |-> "c1", is_service_account |-> FALSE]]

Pair ==
  [u \in {"a", "b"} |-> [college |-> "c1", is_service_account |-> FALSE]]

Yard ==
  [u \in {"a", "b", "s"} |->
     IF u = "s" THEN [college |-> None, is_service_account |-> TRUE]
     ELSE [college |-> "c1", is_service_account |-> FALSE]]

Lobby ==
  [u \in {"a", "n", "s", "t"} |->
     [college |-> IF u = "a" THEN "c1" ELSE IF u = "s" THEN "c2" ELSE None,
      is_service_account |-> u \in {"s", "t"}]]

Desk ==
  [u \in {"a", "s", "t"} |->
     [college |-> IF u = "a" THEN "c1" ELSE IF u = "s" THEN "c2" ELSE None,
      is_service_account |-> u \in {"s", "t"}]]

Town ==
  [u \in {"a", "b", "x", "s"} |->
     [college |-> IF u = "x" THEN "c2" ELSE "c1", is_service_account |-> u = "s"]]

Square ==
  [u \in {"a", "b", "c", "d"} |-> [college |-> "c1", is_service_account |-> FALSE]]

\* the requests that can be in flight at once
Requests == 1..MaxRequests

VARIABLES
  users,            \* accounts.User table: id -> [college, is_service_account]
  waiting,          \* WaitingListEntry rows, oldest first
  chats,            \* Chat rows; the id of a chat is its index
  messages,         \* Message rows, oldest first
  now,              \* timezone.now(), whole seconds
  connected,        \* user -> the user's websocket consumer is accepted
  current_chat,     \* user -> MainConsumer.current_chat (an in-memory Chat object)
  chat_group_name,  \* user -> MainConsumer.chat_group_name (NoChat for "")
  groups,           \* user -> chat channels the consumer's channel was added to
  inbox,            \* user -> channel-layer events not yet handled by the consumer
  timers,           \* pending delayed_match tasks
  pc,               \* SpecRace: request -> the statement the request is at
  local,            \* SpecRace: request -> local variables of the request
  ret               \* the last operation run and what it returned

vars == << users, waiting, chats, messages, now, connected, current_chat,
           chat_group_name, groups, inbox, timers, pc, local, ret >>

UserIds == DOMAIN users
college_of(u) == users[u].college
is_service_account(u) == users[u].is_service_account

\* ------------------------------------------------------------ sequence helpers
Range(s) == {s[i] : i \in 1..Len(s)}

\* ----------------------------------------------------------- chat history
NoSnapshot == [id |-> NoChat, is_active |-> FALSE]
Snapshot(ch, id) == [id |-> id, is_active |-> ch[id].is_active]

\* the participant check letting every user through
is_participant_Anyone(chat, user) == TRUE

is_participant(chat, user) ==
  user = chat.participant1 \/ user = chat.participant2

has_any_chat_history(ch, user) ==
  \E i \in 1..Len(ch) : ch[i].participant1 = user \/ ch[i].participant2 = user

SharedChats(ch, user1, user2) ==
  {i \in 1..Len(ch) :
     \/ ch[i].participant1 = user1 /\ ch[i].participant2 = user2
     \/ ch[i].participant1 = user2 /\ ch[i].participant2 = user1}

have_users_chatted_before_OneWay(ch, user1, user2) ==
  \E i \in 1..Len(ch) : ch[i].participant1 = user1 /\ ch[i].participant2 = user2

have_users_chatted_before(ch, user1, user2) ==
  SharedChats(ch, user1, user2) # {}

get_most_recent_chat_time(ch, user1, user2) ==
  LET shared == SharedChats(ch, user1, user2) IN
  IF shared = {} THEN NoTime
  ELSE LET last == CHOOSE i \in shared : \A j \in shared : j <= i
       IN ch[last].created_at

ActiveChats(ch, user) ==
  {i \in 1..Len(ch) : ch[i].is_active /\ is_participant(ch[i], user)}

\* truth value of get_active_chat(user)
get_active_chat_Never(ch, user) == FALSE
get_active_chat(ch, user) == ActiveChats(ch, user) # {}

\* ------------------------------------------------------------ MatchingService
\* lines 23-24: a service account called without a college uses its own
entry_college(user, college) ==
  IF is_service_account(user) /\ college = None THEN college_of(user) ELSE college

\* get_or_create on (user, college); the second component is the error raised:
\* ValueError for a regular user without a college, IntegrityError when the
\* row would hold a NULL college (WaitingListEntry.college is NOT NULL).
add_error(user, college) ==
  IF college = None /\ ~is_service_account(user) THEN "ValueError"
  ELSE IF entry_college(user, college) = None THEN "IntegrityError"
  ELSE "ok"

HasEntry(w, user, college) ==
  \E i \in 1..Len(w) : w[i].user = user /\ w[i].college = college

\* the `created` of get_or_create
created(w, user, college) ==
  add_error(user, college) = "ok" /\ ~HasEntry(w, user, entry_college(user, college))

add_to_waiting_list_NoConstraint(w, t, user, college) ==
  IF add_error(user, college) # "ok" THEN w
  ELSE Append(w, [user |-> user, college |-> entry_college(user, college),
                  created_at |-> t])

add_to_waiting_list_Refresh(w, t, user, college) ==
  IF add_error(user, college) # "ok" THEN w
  ELSE Append(SelectSeq(w, LAMBDA e : ~(e.user = user
                                          /\ e.college = entry_college(user, college))),
              [user |-> user, college |-> entry_college(user, college),
               created_at |-> t])

add_to_waiting_list(w, t, user, college) ==
  IF add_error(user, college) # "ok"
     \/ HasEntry(w, user, entry_college(user, college)) THEN w
  ELSE Append(w, [user |-> user, college |-> entry_college(user, college),
                  created_at |-> t])

\* the rows the filter of remove_from_waiting_list selects (deleted_count)
deleted_count_AnyUser(w, user, college) == Len(w)
deleted_count(w, user, college) ==
  IF college # None
  THEN Len(SelectSeq(w, LAMBDA e : e.user = user /\ e.college = college))
  ELSE Len(SelectSeq(w, LAMBDA e : e.user = user))

remove_from_waiting_list_OneRow(w, user, college) ==
  IF \A i \in 1..Len(w) : w[i].user # user THEN w
  ELSE IF college # None
  THEN SelectSeq(w, LAMBDA e : ~(e.user = user /\ e.college = college))
  ELSE LET k == CHOOSE i \in 1..Len(w) :
                  w[i].user = user /\ \A j \in 1..(i - 1) : w[j].user # user
       IN SubSeq(w, 1, k - 1) \o SubSeq(w, k + 1, Len(w))

remove_from_waiting_list(w, user, college) ==
  IF college # None
  THEN SelectSeq(w, LAMBDA e : ~(e.user = user /\ e.college = college))
  ELSE SelectSeq(w, LAMBDA e : e.user # user)

DeleteEntriesOf_OnlyFirst(w, us) ==
  IF \A i \in 1..Len(w) : w[i].user \notin us THEN w
  ELSE LET k == CHOOSE i \in 1..Len(w) :
                  w[i].user \in us /\ \A j \in 1..(i - 1) : w[j].user \notin us
       IN SubSeq(w, 1, k - 1) \o SubSeq(w, k + 1, Len(w))

\* WaitingListEntry.objects.filter(user=user).delete() / user__in=[...]
DeleteEntriesOf(w, us) == SelectSeq(w, LAMBDA e : e.user \notin us)

get_waiting_count(w, college) ==
  Len(SelectSeq(w, LAMBDA e : e.college = college))

\* the pool query without its college filter
waiting_entries_AnyCollege(w, college, include_service_accounts) == w

\* the pool of find_match: the query of lines 66-79, oldest first
waiting_entries(w, college, include_service_accounts) ==
  IF college # None
  THEN IF include_service_accounts
       THEN SelectSeq(w, LAMBDA e : e.college = college \/ is_service_account(e.user))
       ELSE SelectSeq(w, LAMBDA e : e.college = college)
  ELSE SelectSeq(w, LAMBDA e : is_service_account(e.user))

\* seconds the first entry of the user in the pool has waited
Waited(entries, t, user) ==
  LET i == CHOOSE k \in 1..Len(entries) :
             entries[k].user = user /\ \A j \in 1..(k - 1) : entries[j].user # user
  IN t - entries[i].created_at

\* lines 125 and 133: the user has waited less than 5 seconds
TooRecent_OffByOne(entries, t, user) == Waited(entries, t, user) < WaitThreshold - 1

TooRecent(entries, t, user) == Waited(entries, t, user) < WaitThreshold

RECURSIVE Strategy2(_, _, _, _)
\* lines 107-110: the first pair, i before j, that never shared a chat
Strategy2(ch, experienced_users, i, j) ==
  IF i > Len(experienced_users) THEN NoMatch
  ELSE IF j > Len(experienced_users) THEN Strategy2(ch, experienced_users, i + 1, i + 2)
  ELSE IF ~have_users_chatted_before(ch, experienced_users[i], experienced_users[j])
       THEN << experienced_users[i], experienced_users[j] >>
  ELSE Strategy2(ch, experienced_users, i, j + 1)

RECURSIVE Strategy3_TieLast(_, _, _, _, _, _, _, _)
\* the scan keeping the later pair when two pairs' chats are equally old
Strategy3_TieLast(ch, entries, t, experienced_users, i, j, best_pair, oldest_chat_time) ==
  IF i > Len(experienced_users) THEN best_pair
  ELSE IF TooRecent(entries, t, experienced_users[i])
       THEN Strategy3_TieLast(ch, entries, t, experienced_users, i + 1, i + 2, best_pair,
                              oldest_chat_time)
  ELSE IF j > Len(experienced_users)
       THEN Strategy3_TieLast(ch, entries, t, experienced_users, i + 1, i + 2, best_pair,
                              oldest_chat_time)
  ELSE IF TooRecent(entries, t, experienced_users[j])
       THEN Strategy3_TieLast(ch, entries, t, experienced_users, i, j + 1, best_pair,
                              oldest_chat_time)
  ELSE LET most_recent_chat_time ==
             get_most_recent_chat_time(ch, experienced_users[i], experienced_users[j])
       IN IF oldest_chat_time = NoTime
             \/ (most_recent_chat_time # NoTime /\ most_recent_chat_time <= oldest_chat_time)
          THEN Strategy3_TieLast(ch, entries, t, experienced_users, i, j + 1,
                                 << experienced_users[i], experienced_users[j] >>,
                                 most_recent_chat_time)
          ELSE Strategy3_TieLast(ch, entries, t, experienced_users, i, j + 1,
                                 best_pair, oldest_chat_time)

RECURSIVE Strategy3(_, _, _, _, _, _, _, _)
\* lines 114-144: among pairs that both waited 5 seconds, the pair whose most
\* recent shared chat is the oldest
Strategy3(ch, entries, t, experienced_users, i, j, best_pair, oldest_chat_time) ==
  IF i > Len(experienced_users) THEN best_pair
  ELSE IF TooRecent(entries, t, experienced_users[i])
       THEN Strategy3(ch, entries, t, experienced_users, i + 1, i + 2, best_pair, oldest_chat_time)
  ELSE IF j > Len(experienced_users)
       THEN Strategy3(ch, entries, t, experienced_users, i + 1, i + 2, best_pair, oldest_chat_time)
  ELSE IF TooRecent(entries, t, experienced_users[j])
       THEN Strategy3(ch, entries, t, experienced_users, i, j + 1, best_pair, oldest_chat_time)
  ELSE LET most_recent_chat_time ==
             get_most_recent_chat_time(ch, experienced_users[i], experienced_users[j])
       IN IF oldest_chat_time = NoTime
             \/ (most_recent_chat_time # NoTime /\ most_recent_chat_time < oldest_chat_time)
          THEN Strategy3(ch, entries, t, experienced_users, i, j + 1,
                         << experienced_users[i], experienced_users[j] >>,
                         most_recent_chat_time)
          ELSE Strategy3(ch, entries, t, experienced_users, i, j + 1,
                         best_pair, oldest_chat_time)

Strategy1_ExperiencedFirst(fresh_users, experienced_users) ==
  IF Len(fresh_users) >= 1 /\ Len(experienced_users) >= 1
  THEN << fresh_users[1], experienced_users[1] >>
  ELSE IF Len(fresh_users) >= 2 THEN << fresh_users[1], fresh_users[2] >>
  ELSE NoMatch

Strategy1_LastExperienced(fresh_users, experienced_users) ==
  IF Len(fresh_users) >= 2 THEN << fresh_users[1], fresh_users[2] >>
  ELSE IF Len(fresh_users) = 1 /\ Len(experienced_users) >= 1
       THEN << fresh_users[1], experienced_users[Len(experienced_users)] >>
  ELSE NoMatch

\* lines 97-104: two fresh users, or the one fresh user with an experienced one
Strategy1(fresh_users, experienced_users) ==
  IF Len(fresh_users) >= 2 THEN << fresh_users[1], fresh_users[2] >>
  ELSE IF Len(fresh_users) = 1 /\ Len(experienced_users) >= 1
       THEN << fresh_users[1], experienced_users[1] >>
  ELSE NoMatch

find_match(w, ch, t, college, include_service_accounts) ==
  LET entries == waiting_entries(w, college, include_service_accounts)
      pool == [i \in 1..Len(entries) |-> entries[i].user]
      fresh_users == SelectSeq(pool, LAMBDA u : ~has_any_chat_history(ch, u))
      experienced_users == SelectSeq(pool, LAMBDA u : has_any_chat_history(ch, u))
      paired == Strategy1(fresh_users, experienced_users)
      novel == Strategy2(ch, experienced_users, 1, 2)
  IN IF Len(entries) < 2 THEN NoMatch
     ELSE IF paired # NoMatch THEN paired
     ELSE IF novel # NoMatch THEN novel
     ELSE Strategy3(ch, entries, t, experienced_users, 1, 2, NoMatch, NoTime)

\* the college create_chat stores (lines 232-237)
chat_college_of(user1, user2, college) ==
  IF college # None THEN college
  ELSE IF ~is_service_account(user1) /\ college_of(user1) # None THEN college_of(user1)
  ELSE IF ~is_service_account(user2) /\ college_of(user2) # None THEN college_of(user2)
  ELSE None

\* One atomic transaction.  Chat.college is NOT NULL: a chat without a college
\* raises IntegrityError and the transaction, the deletions included, rolls back.
create_chat(w, ch, msgs, user1, user2, college) ==
  LET c == chat_college_of(user1, user2, college) IN
  IF c = None
  THEN [waiting |-> w, chats |-> ch, messages |-> msgs, chat |-> NoChat,
        error |-> "IntegrityError"]
  ELSE [waiting |-> DeleteEntriesOf(w, {user1, user2}),
        chats |-> Append(ch, [college |-> c, participant1 |-> user1,
                              participant2 |-> user2, created_at |-> Len(ch) + 1,
                              is_active |-> TRUE]),
        messages |-> Append(msgs, [chat |-> Len(ch) + 1, sender |-> None,
                                   message_type |-> "system", content |-> "started"]),
        chat |-> Len(ch) + 1,
        error |-> "ok"]

\* the college try_match_users passes to create_chat (lines 312-319)
match_college(user1, user2, college) ==
  IF is_service_account(user1) \/ is_service_account(user2)
  THEN IF ~is_service_account(user1) THEN college_of(user1)
       ELSE IF ~is_service_account(user2) THEN college_of(user2)
       ELSE college
  ELSE college

StaleUsers_FirstOnly(ch, match) == {u \in {match[1]} : get_active_chat(ch, u)}

\* the entries the loop purges for a proposed pair (lines 299-305)
StaleUsers(ch, match) == {u \in {match[1], match[2]} : get_active_chat(ch, u)}

\* the loop leaving after one purge instead of asking the matcher again
try_match_users_GiveUp(w, ch, msgs, t, college, include_service_accounts, proposed) ==
  LET match == find_match(w, ch, t, college, include_service_accounts) IN
  IF match = NoMatch
  THEN [waiting |-> w, chats |-> ch, messages |-> msgs, chat |-> NoChat,
        error |-> "ok", proposed |-> proposed]
  ELSE IF StaleUsers(ch, match) # {}
       THEN [waiting |-> DeleteEntriesOf(w, StaleUsers(ch, match)), chats |-> ch,
             messages |-> msgs, chat |-> NoChat, error |-> "ok",
             proposed |-> Append(proposed, match)]
  ELSE LET made == create_chat(w, ch, msgs, match[1], match[2],
                               match_college(match[1], match[2], college))
       IN [waiting |-> made.waiting, chats |-> made.chats, messages |-> made.messages,
           chat |-> made.chat, error |-> made.error,
           proposed |-> Append(proposed, match)]

RECURSIVE try_match_users(_, _, _, _, _, _, _)
\* the whole loop; proposed lists the pairs find_match returned, in order
try_match_users(w, ch, msgs, t, college, include_service_accounts, proposed) ==
  LET match == find_match(w, ch, t, college, include_service_accounts) IN
  IF match = NoMatch
  THEN [waiting |-> w, chats |-> ch, messages |-> msgs, chat |-> NoChat,
        error |-> "ok", proposed |-> proposed]
  ELSE IF StaleUsers(ch, match) # {}
       THEN try_match_users(DeleteEntriesOf(w, StaleUsers(ch, match)), ch, msgs, t,
                            college, include_service_accounts, Append(proposed, match))
  ELSE LET made == create_chat(w, ch, msgs, match[1], match[2],
                               match_college(match[1], match[2], college))
       IN [waiting |-> made.waiting, chats |-> made.chats, messages |-> made.messages,
           chat |-> made.chat, error |-> made.error,
           proposed |-> Append(proposed, match)]

\* the orders in which the unordered query colleges_with_users can list colleges
CollegeOrders == {<< "c1", "c2" >>, << "c2", "c1" >>}

RECURSIVE match_colleges(_, _, _, _, _, _, _)
\* lines 273-276: the first college, among those with waiting entries when the
\* query ran, whose attempt returns a chat
match_colleges(w, ch, msgs, t, order, k, proposed) ==
  IF k > Len(order)
  THEN [waiting |-> w, chats |-> ch, messages |-> msgs, chat |-> NoChat,
        error |-> "ok", proposed |-> proposed]
  ELSE LET r == try_match_users(w, ch, msgs, t, order[k], TRUE, proposed) IN
       IF r.chat # NoChat \/ r.error # "ok" THEN r
       ELSE match_colleges(r.waiting, r.chats, r.messages, t, order, k + 1, r.proposed)

try_match_service_account(w, ch, msgs, t, order) ==
  IF ~\E i \in 1..Len(w) : is_service_account(w[i].user)
  THEN [waiting |-> w, chats |-> ch, messages |-> msgs, chat |-> NoChat,
        error |-> "ok", proposed |-> << >>]
  ELSE match_colleges(w, ch, msgs, t,
                      SelectSeq(order, LAMBDA c : get_waiting_count(w, c) > 0),
                      1, << >>)

\* end_chat flipping the flag of whatever object it is handed
end_chat_Toggle(ch, msgs, chat) ==
  [chats |-> [ch EXCEPT ![chat.id].is_active = ~chat.is_active],
   messages |-> Append(msgs, [chat |-> chat.id, sender |-> None,
                              message_type |-> "system", content |-> "ended"]),
   success |-> TRUE]

\* end_chat on an in-memory Chat object `chat` ([id, is_active]): the object's
\* own flag decides, chat.save() writes the row, one closing message is added
end_chat(ch, msgs, chat) ==
  IF chat.is_active
  THEN [chats |-> [ch EXCEPT ![chat.id].is_active = FALSE],
        messages |-> Append(msgs, [chat |-> chat.id, sender |-> None,
                                   message_type |-> "system", content |-> "ended"]),
        success |-> TRUE]
  ELSE [chats |-> ch, messages |-> msgs, success |-> FALSE]

\* the local variables of a request: the user, the pair find_match proposed,
\* the Chat object fetched
NoLocal == [user |-> None, match |-> NoMatch, chat |-> NoSnapshot]

\* ------------------------------------------------------------------- results
Ret(op, user, college, chat, success, error, proposed) ==
  [op |-> op, user |-> user, college |-> college, chat |-> chat,
   success |-> success, error |-> error, proposed |-> proposed]

\* the result of remove_from_waiting_list: deleted_count and deleted_count > 0
RetRemoved(user, college, count) ==
  [op |-> "remove_from_waiting_list", user |-> user, college |-> college,
   deleted_count |-> count, success |-> count > 0]

\* the result of find_match; `match` is the returned pair or NoMatch
RetMatch(college, include_service_accounts, match) ==
  [op |-> "find_match", college |-> college,
   include_service_accounts |-> include_service_accounts, match |-> match]

\* ------------------------------------------------------------- initial state
\* no consumer is connected, no task is pending, no request is running
NoConsumers(pop) ==
  /\ users = pop
  /\ connected = [u \in DOMAIN pop |-> FALSE]
  /\ current_chat = [u \in DOMAIN pop |-> NoSnapshot]
  /\ chat_group_name = [u \in DOMAIN pop |-> NoChat]
  /\ groups = [u \in DOMAIN pop |-> {}]
  /\ inbox = [u \in DOMAIN pop |-> << >>]
  /\ timers = << >>
  /\ pc = [r \in Requests |-> "idle"]
  /\ local = [r \in Requests |-> NoLocal]
  /\ ret = Ret("init", None, None, NoChat, FALSE, "ok", << >>)

\* the empty database
InitEmpty(pop) ==
  /\ NoConsumers(pop)
  /\ waiting = << >>
  /\ chats = << >>
  /\ messages = << >>
  /\ now = 0

\* The database the service is started on.  WaitingListEntry tables of at most
\* n rows: one row per user, under the user's college, oldest first.
RECURSIVE Pools(_, _)
Pools(pop, n) ==
  IF n = 0 THEN {<< >>}
  ELSE LET shorter == Pools(pop, n - 1)
           longest == {p \in shorter : Len(p) = n - 1}
           rows == {[user |-> u, college |-> pop[u].college, created_at |-> t] :
                      u \in DOMAIN pop, t \in 0..MaxJoinTime}
       IN shorter \cup
          {Append(x[1], x[2]) :
             x \in {y \in longest \X rows :
                      /\ \A k \in 1..Len(y[1]) : y[1][k].user # y[2].user
                      /\ Len(y[1]) > 0 => y[1][Len(y[1])].created_at <= y[2].created_at}}

\* Chat tables of at most n rows between two distinct users, each chat ended
\* or active as `flags` allows; the college is the one try_match_users stores
\* for the pair.
RECURSIVE Histories(_, _, _)
Histories(pop, n, flags) ==
  IF n = 0 THEN {<< >>}
  ELSE LET shorter == Histories(pop, n - 1, flags)
           longest == {h \in shorter : Len(h) = n - 1}
       IN shorter \cup
          {Append(h, [college |-> IF pop[pr[1]].is_service_account
                                   THEN pop[pr[2]].college ELSE pop[pr[1]].college,
                      participant1 |-> pr[1], participant2 |-> pr[2],
                      created_at |-> n, is_active |-> act]) :
             h \in longest,
             pr \in {q \in (DOMAIN pop) \X (DOMAIN pop) : q[1] # q[2]},
             act \in flags}

\* no user is a participant of two active chats
OneActiveChat(ch) ==
  \A i, j \in 1..Len(ch) :
    (i # j /\ ch[i].is_active /\ ch[j].is_active) =>
      {ch[i].participant1, ch[i].participant2}
        \cap {ch[j].participant1, ch[j].participant2} = {}

RECURSIVE MessagesOf(_, _)
\* the system messages of the first k chats: one opening message per chat and
\* one closing message per ended chat
MessagesOf(ch, k) ==
  IF k = 0 THEN << >>
  ELSE MessagesOf(ch, k - 1)
       \o << [chat |-> k, sender |-> None, message_type |-> "system",
              content |-> "started"] >>
       \o (IF ch[k].is_active THEN << >>
           ELSE << [chat |-> k, sender |-> None, message_type |-> "system",
                    content |-> "ended"] >>)

\* the database MatchingService is started on: a campus, ended and active chats
Init ==
  /\ NoConsumers(Campus)
  /\ waiting \in Pools(Campus, MaxPool)
  /\ chats \in {h \in Histories(Campus, MaxHistory, BOOLEAN) : OneActiveChat(h)}
  /\ messages = MessagesOf(chats, Len(chats))
  /\ now = WaitThreshold

\* the database find_match is asked about: a campus and a service account of
\* another college, ended chats
InitMatcher ==
  /\ NoConsumers(Quad)
  /\ waiting \in Pools(Quad, MaxPool)
  /\ chats \in Histories(Quad, MaxMatcherHistory, {FALSE})
  /\ messages = MessagesOf(chats, Len(chats))
  /\ now = WaitThreshold

\* ------------------------------------------------------------ channel layer
\* groups[u] holds the channels the channel of u's consumer is a member of: the
\* ids of chat channels, UserChannel for user_<id> and CollegeChannel for the
\* channel of u's college.
Members(id) == {v \in UserIds : connected[v] /\ id \in groups[v]}

CollegeMembers(college) ==
  {v \in UserIds : connected[v] /\ CollegeChannel \in groups[v] /\ college_of(v) = college}

\* the names of the channels a consumer joins
user_group_name(u) == "user_" \o u

college_group_name_OwnCollege(u) == "college_" \o college_of(u)
college_group_name(u) ==
  IF college_of(u) # None THEN "college_" \o college_of(u)
  ELSE "college_service_accounts"

chat_group(id) == "chat_" \o ToString(id)

\* a group_send as the handler made it: the event type, the group, and the
\* users whose consumers are members of the group when it is sent
Sent(type, group, to) == [type |-> type, group |-> group, to |-> to]

\* group_send to user_<id>: the event reaches the user's consumer if it is up
SendToUser(inb, user, event) ==
  IF connected[user] THEN [inb EXCEPT ![user] = Append(@, event)] ELSE inb

\* group_send to chat_<id>: every consumer whose channel is in the group
SendToChat(inb, id, event) ==
  [v \in DOMAIN inb |->
     IF connected[v] /\ id \in groups[v] THEN Append(inb[v], event) ELSE inb[v]]

Matched(id) == [type |-> "chat_matched_handler", chat_id |-> id]
Ended == [type |-> "chat_ended_handler", chat_id |-> NoChat]

\* notify_chat_match: one event per participant, to the participant's user channel
notify_chat_match(inb, ch, id) ==
  SendToUser(SendToUser(inb, ch[id].participant1, Matched(id)),
             ch[id].participant2, Matched(id))

\* broadcast_activity_update of u's consumer
activity_update(u) ==
  Sent("activity_update_handler", CollegeChannel, CollegeMembers(college_of(u)))

\* the group_sends of notify_chat_match(chat) made by u's consumer
notify_sent(u, ch, id) ==
  << Sent("chat_matched_handler", UserChannel, Members(UserChannel) \cap {ch[id].participant1}),
     Sent("chat_matched_handler", UserChannel, Members(UserChannel) \cap {ch[id].participant2}),
     activity_update(u) >>

InboxBounded(inb) == \A v \in DOMAIN inb : Len(inb[v]) <= MaxInbox

\* an uncaught exception ends the consumer: its instance state is gone
Crash(u) ==
  /\ connected' = [connected EXCEPT ![u] = FALSE]
  /\ current_chat' = [current_chat EXCEPT ![u] = NoSnapshot]
  /\ chat_group_name' = [chat_group_name EXCEPT ![u] = NoChat]

\* ------------------------------------------------------------ MainConsumer
\* the match attempt of a consumer: the service account path or the college path
consumer_match(u, w, order) ==
  IF is_service_account(u)
  THEN try_match_service_account(w, chats, messages, now, order)
  ELSE try_match_users(w, chats, messages, now, college_of(u), TRUE, << >>)

DelayedMatch_NoSleep(u) == [user |-> u, college |-> college_of(u), due |-> now]
DelayedMatch(u) == [user |-> u, college |-> college_of(u), due |-> now + DelaySeconds]

\* connect + send_initial_state (authentication succeeded)
ws_connect(u) ==
  /\ ~connected[u]
  /\ ~(college_of(u) = None /\ ~is_service_account(u))
  /\ connected' = [connected EXCEPT ![u] = TRUE]
  /\ inbox' = [inbox EXCEPT ![u] = << >>]
  /\ IF get_active_chat(chats, u)
     THEN \E id \in ActiveChats(chats, u) :
            /\ current_chat' = [current_chat EXCEPT ![u] = Snapshot(chats, id)]
            /\ chat_group_name' = [chat_group_name EXCEPT ![u] = id]
            /\ groups' = [groups EXCEPT ![u] = {UserChannel, CollegeChannel, id}]
            /\ ret' = Ret("ws_connect", u, None, id, TRUE, "ok", << >>)
                      @@ [sent |-> << >>, authenticated |-> TRUE,
                          joined |-> {user_group_name(u), college_group_name(u),
                                      chat_group(id)}]
     ELSE /\ current_chat' = [current_chat EXCEPT ![u] = NoSnapshot]
          /\ chat_group_name' = [chat_group_name EXCEPT ![u] = NoChat]
          /\ groups' = [groups EXCEPT ![u] = {UserChannel, CollegeChannel}]
          /\ ret' = Ret("ws_connect", u, None, NoChat, TRUE, "ok", << >>)
                    @@ [sent |-> << >>, authenticated |-> TRUE,
                        joined |-> {user_group_name(u), college_group_name(u)}]
  /\ UNCHANGED << users, waiting, chats, messages, now, timers, pc, local >>

\* connect closed before accept: close(4001) when get_user_from_token gives no
\* user, close(4002) for a regular user without a college
ws_connect_closed(u, authenticated) ==
  /\ ~connected[u]
  /\ ~authenticated \/ (college_of(u) = None /\ ~is_service_account(u))
  /\ ret' = Ret("ws_connect", u, None, NoChat, FALSE,
                IF ~authenticated THEN "4001" ELSE "4002", << >>)
            @@ [sent |-> << >>, authenticated |-> authenticated, joined |-> {}]
  /\ UNCHANGED << users, waiting, chats, messages, now, connected, current_chat,
                  chat_group_name, groups, inbox, timers, pc, local >>

\* the frames receive cannot dispatch: text that is not JSON, JSON that is not
\* an object, an object without a known action
Malformed == {"not_json", "not_object", "no_action"}

\* receive(text_data) on such a frame: JSONDecodeError is caught and answered;
\* data.get on a list, a string, a number or null raises AttributeError, which
\* nothing catches; an unknown action matches no branch
ws_receive_malformed(u, frame) ==
  /\ connected[u]
  /\ frame \in Malformed
  /\ IF frame = "not_object"
     THEN /\ Crash(u)
          /\ ret' = Ret("ws_receive", u, None, NoChat, FALSE, "AttributeError", << >>)
                    @@ [sent |-> << >>, reply |-> "none", frame |-> frame]
     ELSE /\ ret' = Ret("ws_receive", u, None, NoChat, FALSE, "ok", << >>)
                    @@ [sent |-> << >>, frame |-> frame,
                        reply |-> IF frame = "not_json" THEN "error" ELSE "none"]
          /\ UNCHANGED << connected, current_chat, chat_group_name >>
  /\ UNCHANGED << users, waiting, chats, messages, now, groups, inbox, timers,
                  pc, local >>

\* a disconnect that also takes the user out of the queue
ws_disconnect_Dequeue(u) ==
  /\ connected[u]
  /\ connected' = [connected EXCEPT ![u] = FALSE]
  /\ groups' = [groups EXCEPT ![u] = @ \ {UserChannel, CollegeChannel, chat_group_name[u]}]
  /\ current_chat' = [current_chat EXCEPT ![u] = NoSnapshot]
  /\ chat_group_name' = [chat_group_name EXCEPT ![u] = NoChat]
  /\ inbox' = [inbox EXCEPT ![u] = << >>]
  /\ waiting' = remove_from_waiting_list(waiting, u, college_of(u))
  /\ ret' = Ret("ws_disconnect", u, None, NoChat, TRUE, "ok", << >>)
            @@ [sent |-> << Sent("presence_update", CollegeChannel,
                                 CollegeMembers(college_of(u)) \ {u}) >>]
  /\ UNCHANGED << users, chats, messages, now, timers, pc, local >>

\* disconnect: the user channel, the college channel and the channel named by
\* chat_group_name are discarded; offline presence goes to the college channel
ws_disconnect(u) ==
  /\ connected[u]
  /\ connected' = [connected EXCEPT ![u] = FALSE]
  /\ groups' = [groups EXCEPT ![u] = @ \ {UserChannel, CollegeChannel, chat_group_name[u]}]
  /\ current_chat' = [current_chat EXCEPT ![u] = NoSnapshot]
  /\ chat_group_name' = [chat_group_name EXCEPT ![u] = NoChat]
  /\ inbox' = [inbox EXCEPT ![u] = << >>]
  /\ ret' = Ret("ws_disconnect", u, None, NoChat, TRUE, "ok", << >>)
            @@ [sent |-> << Sent("presence_update", CollegeChannel,
                                 CollegeMembers(college_of(u)) \ {u}) >>]
  /\ UNCHANGED << users, waiting, chats, messages, now, timers, pc, local >>

\* join_queue, then try_match, then notify_chat_match or schedule_delayed_match
ws_join_queue(u) ==
  /\ connected[u]
  /\ IF get_active_chat(chats, u)
     THEN \E id \in ActiveChats(chats, u) :
            /\ current_chat' = [current_chat EXCEPT ![u] = Snapshot(chats, id)]
            /\ chat_group_name' = [chat_group_name EXCEPT ![u] = id]
            /\ groups' = [groups EXCEPT ![u] = @ \cup {id}]
            /\ ret' = Ret("ws_join_queue", u, college_of(u), id, FALSE, "active", << >>)
                      @@ [sent |-> << >>]
            /\ UNCHANGED << waiting, chats, messages, connected, inbox, timers >>
     ELSE IF add_error(u, college_of(u)) # "ok"
     THEN /\ Crash(u)
          /\ ret' = Ret("ws_join_queue", u, college_of(u), NoChat, FALSE,
                        add_error(u, college_of(u)), << >>) @@ [sent |-> << >>]
          /\ UNCHANGED << waiting, chats, messages, groups, inbox, timers >>
     ELSE \E order \in CollegeOrders :
          \E r \in {consumer_match(u, add_to_waiting_list(waiting, now, u, college_of(u)),
                                    order)} :
          LET added == created(waiting, u, college_of(u))
          IN /\ waiting' = r.waiting
             /\ chats' = r.chats
             /\ messages' = r.messages
             /\ ret' = Ret("ws_join_queue", u, college_of(u), r.chat, added, r.error,
                           r.proposed)
                       @@ [sent |-> << activity_update(u) >>
                                    \o (IF r.chat # NoChat /\ r.error = "ok"
                                        THEN notify_sent(u, r.chats, r.chat) ELSE << >>)]
             /\ IF r.error # "ok"
                THEN /\ Crash(u)
                     /\ UNCHANGED << groups, inbox, timers >>
                ELSE /\ inbox' = IF r.chat # NoChat
                                 THEN notify_chat_match(inbox, r.chats, r.chat)
                                 ELSE inbox
                     /\ timers' = IF r.chat # NoChat THEN timers
                                  ELSE Append(timers, DelayedMatch(u))
                     /\ UNCHANGED << connected, current_chat, chat_group_name, groups >>
  /\ UNCHANGED << users, now, pc, local >>

ws_leave_queue(u) ==
  /\ connected[u]
  /\ waiting' = remove_from_waiting_list(waiting, u, college_of(u))
  /\ ret' = Ret("ws_leave_queue", u, college_of(u), NoChat,
                deleted_count(waiting, u, college_of(u)) > 0, "ok", << >>)
            @@ [sent |-> IF deleted_count(waiting, u, college_of(u)) > 0
                         THEN << activity_update(u) >> ELSE << >>]
  /\ UNCHANGED << users, chats, messages, now, connected, current_chat,
                  chat_group_name, groups, inbox, timers, pc, local >>

\* join_chat(chat_id): Chat.objects.get(id=chat_id), then the participant check
ws_join_chat(u, id) ==
  /\ connected[u]
  /\ IF id \notin 1..Len(chats)
     THEN /\ ret' = Ret("ws_join_chat", u, None, id, FALSE, "not_found", << >>)
                    @@ [sent |-> << >>]
          /\ UNCHANGED << current_chat, chat_group_name, groups >>
     ELSE IF ~is_participant(chats[id], u)
     THEN /\ ret' = Ret("ws_join_chat", u, None, id, FALSE, "forbidden", << >>)
                    @@ [sent |-> << >>]
          /\ UNCHANGED << current_chat, chat_group_name, groups >>
     ELSE /\ current_chat' = [current_chat EXCEPT ![u] = Snapshot(chats, id)]
          /\ chat_group_name' = [chat_group_name EXCEPT ![u] = id]
          /\ groups' = [groups EXCEPT ![u] = (@ \ {chat_group_name[u]}) \cup {id}]
          /\ ret' = Ret("ws_join_chat", u, None, id, TRUE, "ok", << >>) @@ [sent |-> << >>]
  /\ UNCHANGED << users, waiting, chats, messages, now, connected, inbox, timers,
                  pc, local >>

ws_leave_chat(u) ==
  /\ connected[u]
  /\ IF chat_group_name[u] # NoChat
     THEN /\ groups' = [groups EXCEPT ![u] = @ \ {chat_group_name[u]}]
          /\ chat_group_name' = [chat_group_name EXCEPT ![u] = NoChat]
          /\ current_chat' = [current_chat EXCEPT ![u] = NoSnapshot]
     ELSE UNCHANGED << groups, chat_group_name, current_chat >>
  /\ ret' = Ret("ws_leave_chat", u, None, NoChat, TRUE, "ok", << >>) @@ [sent |-> << >>]
  /\ UNCHANGED << users, waiting, chats, messages, now, connected, inbox, timers,
                  pc, local >>

\* send_message with non-empty content: send_chat_message(content)
ws_send_message(u) ==
  /\ connected[u]
  /\ IF current_chat[u] = NoSnapshot
     THEN /\ ret' = Ret("ws_send_message", u, None, NoChat, FALSE, "not_in_chat", << >>)
                    @@ [sent |-> << >>, reply |-> "error"]
          /\ UNCHANGED messages
     ELSE /\ messages' = Append(messages, [chat |-> current_chat[u].id, sender |-> u,
                                           message_type |-> "text", content |-> "text"])
          /\ ret' = Ret("ws_send_message", u, None, current_chat[u].id, TRUE, "ok", << >>)
                    @@ [sent |-> << Sent("chat_message_handler", chat_group_name[u],
                                         Members(chat_group_name[u])) >>,
                        reply |-> "none"]
  /\ UNCHANGED << users, waiting, chats, now, connected, current_chat, chat_group_name,
                  groups, inbox, timers, pc, local >>

\* the content strings a send_message frame carries: empty, only whitespace, text
Contents == {"", " ", "text"}

\* str.strip() on those
strip_Nothing(content) == content
strip(content) == IF content \in {"", " "} THEN "" ELSE content

\* receive on {action: send_message, content}: `if content:` after the strip;
\* an empty content matches no further statement
ws_receive_send_message(u, content) ==
  IF strip(content) = ""
  THEN /\ connected[u]
       /\ ret' = Ret("ws_receive_send_message", u, None, NoChat, FALSE, "empty", << >>)
                 @@ [sent |-> << >>, reply |-> "none"]
       /\ UNCHANGED << users, waiting, chats, messages, now, connected, current_chat,
                       chat_group_name, groups, inbox, timers, pc, local >>
  ELSE ws_send_message(u)

\* end_chat of the consumer: MatchingService.end_chat on self.current_chat
ws_end_chat(u) ==
  /\ connected[u]
  /\ IF current_chat[u] = NoSnapshot
     THEN /\ ret' = Ret("ws_end_chat", u, None, NoChat, FALSE, "no_chat", << >>)
                    @@ [sent |-> << >>]
          /\ UNCHANGED << chats, messages, current_chat, inbox >>
     ELSE LET r == end_chat(chats, messages, current_chat[u]) IN
          /\ chats' = r.chats
          /\ messages' = r.messages
          /\ current_chat' = [current_chat EXCEPT ![u].is_active = FALSE]
          /\ inbox' = IF r.success THEN SendToChat(inbox, chat_group_name[u], Ended)
                      ELSE inbox
          /\ ret' = Ret("ws_end_chat", u, None, current_chat[u].id, r.success, "ok", << >>)
                    @@ [sent |-> IF r.success
                                 THEN << Sent("chat_ended_handler", chat_group_name[u],
                                              Members(chat_group_name[u])),
                                         activity_update(u) >>
                                 ELSE << >>]
  /\ UNCHANGED << users, waiting, now, connected, chat_group_name, groups, timers,
                  pc, local >>

\* the event broadcast_typing sends to the chat channel
Typing(is_typing, u) ==
  [type |-> IF is_typing THEN "typing_start_handler" ELSE "typing_stop_handler",
   chat_id |-> NoChat, user_id |-> u]

\* typing_start / typing_stop: broadcast_typing(is_typing)
ws_typing(u, is_typing) ==
  /\ connected[u]
  /\ IF chat_group_name[u] = NoChat
     THEN /\ ret' = Ret("ws_typing", u, None, NoChat, FALSE, "ok", << >>)
                    @@ [sent |-> << >>, is_typing |-> is_typing]
          /\ UNCHANGED inbox
     ELSE /\ inbox' = SendToChat(inbox, chat_group_name[u], Typing(is_typing, u))
          /\ ret' = Ret("ws_typing", u, None, chat_group_name[u], TRUE, "ok", << >>)
                    @@ [sent |-> << Sent(Typing(is_typing, u).type, chat_group_name[u],
                                         Members(chat_group_name[u])) >>,
                        is_typing |-> is_typing]
  /\ UNCHANGED << users, waiting, chats, messages, now, connected, current_chat,
                  chat_group_name, groups, timers, pc, local >>

\* what typing_start_handler / typing_stop_handler of u's consumer send to the
\* client for an event
typing_reply_Echo(u, event) ==
  IF event.type = "typing_start_handler" THEN "typing_start" ELSE "typing_stop"
typing_reply(u, event) ==
  IF event.user_id = u THEN "none"
  ELSE IF event.type = "typing_start_handler" THEN "typing_start" ELSE "typing_stop"

typing_handler(u) ==
  /\ connected[u]
  /\ inbox[u] # << >>
  /\ Head(inbox[u]).type \in {"typing_start_handler", "typing_stop_handler"}
  /\ inbox' = [inbox EXCEPT ![u] = Tail(@)]
  /\ ret' = Ret("typing_handler", u, None, NoChat, TRUE, "ok", << >>)
            @@ [sent |-> << >>, reply |-> typing_reply(u, Head(inbox[u])),
                from |-> Head(inbox[u]).user_id]
  /\ UNCHANGED << users, waiting, chats, messages, now, connected, current_chat,
                  chat_group_name, groups, timers, pc, local >>

\* the consumer handles the oldest event of its channel
chat_matched_handler(u) ==
  /\ connected[u]
  /\ inbox[u] # << >>
  /\ Head(inbox[u]).type = "chat_matched_handler"
  /\ inbox' = [inbox EXCEPT ![u] = Tail(@)]
  /\ chat_group_name' = [chat_group_name EXCEPT ![u] = Head(inbox[u]).chat_id]
  /\ groups' = [groups EXCEPT ![u] = @ \cup {Head(inbox[u]).chat_id}]
  /\ ret' = Ret("chat_matched_handler", u, None, Head(inbox[u]).chat_id, TRUE, "ok", << >>)
            @@ [sent |-> << >>]
  /\ UNCHANGED << users, waiting, chats, messages, now, connected, current_chat,
                  timers, pc, local >>

chat_ended_handler(u) ==
  /\ connected[u]
  /\ inbox[u] # << >>
  /\ Head(inbox[u]).type = "chat_ended_handler"
  /\ inbox' = [inbox EXCEPT ![u] = Tail(@)]
  /\ IF chat_group_name[u] # NoChat
     THEN /\ groups' = [groups EXCEPT ![u] = @ \ {chat_group_name[u]}]
          /\ chat_group_name' = [chat_group_name EXCEPT ![u] = NoChat]
          /\ current_chat' = [current_chat EXCEPT ![u] = NoSnapshot]
     ELSE UNCHANGED << groups, chat_group_name, current_chat >>
  /\ ret' = Ret("chat_ended_handler", u, None, NoChat, TRUE, "ok", << >>)
            @@ [sent |-> << >>]
  /\ UNCHANGED << users, waiting, chats, messages, now, connected, timers, pc, local >>

\* the re-check asking whether anybody at all is waiting
still_in_queue_AnyEntry(w, user) == Len(w) > 0

\* lines 411-413: WaitingListEntry.objects.filter(user=self.user).exists()
still_in_queue(w, user) == \E i \in 1..Len(w) : w[i].user = user

\* the body of the k-th pending delayed_match task once its sleep is over
delayed_match(k) ==
  /\ k \in 1..Len(timers)
  /\ now >= timers[k].due
  /\ timers' = SubSeq(timers, 1, k - 1) \o SubSeq(timers, k + 1, Len(timers))
  /\ LET tm == timers[k] IN
     IF ~still_in_queue(waiting, tm.user)
     THEN /\ ret' = Ret("delayed_match", tm.user, tm.college, NoChat, FALSE, "ok", << >>)
                    @@ [sent |-> << >>]
          /\ UNCHANGED << waiting, chats, messages, inbox >>
     ELSE \E r \in {try_match_users(waiting, chats, messages, now, tm.college, TRUE,
                                     << >>)} :
             /\ waiting' = r.waiting
             /\ chats' = r.chats
             /\ messages' = r.messages
             /\ inbox' = IF r.chat # NoChat
                         THEN notify_chat_match(inbox, r.chats, r.chat)
                         ELSE inbox
             /\ ret' = Ret("delayed_match", tm.user, tm.college, r.chat, TRUE, r.error,
                           r.proposed)
                       @@ [sent |-> IF r.chat # NoChat
                                    THEN notify_sent(tm.user, r.chats, r.chat) ELSE << >>]
  /\ UNCHANGED << users, now, connected, current_chat, chat_group_name, groups,
                  pc, local >>

\* ----------------------------------------------------------------- REST views
rest_join_queue(u) ==
  /\ IF college_of(u) = None /\ ~is_service_account(u)
     THEN /\ ret' = Ret("rest_join_queue", u, None, NoChat, FALSE, "no_college", << >>)
          /\ UNCHANGED << waiting, chats, messages >>
     ELSE IF get_active_chat(chats, u)
     THEN /\ ret' = Ret("rest_join_queue", u, college_of(u), NoChat, FALSE, "active", << >>)
          /\ UNCHANGED << waiting, chats, messages >>
     ELSE IF add_error(u, college_of(u)) # "ok"
     THEN /\ ret' = Ret("rest_join_queue", u, college_of(u), NoChat, FALSE,
                        add_error(u, college_of(u)), << >>)
          /\ UNCHANGED << waiting, chats, messages >>
     ELSE IF HasEntry(waiting, u, college_of(u))
     THEN /\ ret' = Ret("rest_join_queue", u, college_of(u), NoChat, FALSE, "ok", << >>)
          /\ UNCHANGED << waiting, chats, messages >>
     ELSE \E order \in CollegeOrders :
          \E r \in {consumer_match(u, add_to_waiting_list(waiting, now, u, college_of(u)),
                                    order)} :
             /\ waiting' = r.waiting
             /\ chats' = r.chats
             /\ messages' = r.messages
             /\ ret' = Ret("rest_join_queue", u, college_of(u), r.chat, TRUE, r.error,
                           r.proposed)
  /\ UNCHANGED << users, now, connected, current_chat, chat_group_name, groups, inbox,
                  timers, pc, local >>

rest_leave_queue(u) ==
  /\ ~(college_of(u) = None /\ ~is_service_account(u))
  /\ waiting' = remove_from_waiting_list(waiting, u, college_of(u))
  /\ ret' = Ret("rest_leave_queue", u, college_of(u), NoChat,
                deleted_count(waiting, u, college_of(u)) > 0, "ok", << >>)
  /\ UNCHANGED << users, chats, messages, now, connected, current_chat,
                  chat_group_name, groups, inbox, timers, pc, local >>

\* Chat.objects.get(id=chat_id, is_active=True), the participant check, end_chat
rest_end_chat(u, id) ==
  /\ id \in 1..Len(chats)
  /\ IF ~chats[id].is_active
     THEN /\ ret' = Ret("rest_end_chat", u, None, id, FALSE, "not_found", << >>)
          /\ UNCHANGED << chats, messages >>
     ELSE IF ~is_participant(chats[id], u)
     THEN /\ ret' = Ret("rest_end_chat", u, None, id, FALSE, "forbidden", << >>)
          /\ UNCHANGED << chats, messages >>
     ELSE LET r == end_chat(chats, messages, Snapshot(chats, id)) IN
          /\ chats' = r.chats
          /\ messages' = r.messages
          /\ ret' = Ret("rest_end_chat", u, None, id, r.success, "ok", << >>)
  /\ UNCHANGED << users, waiting, now, connected, current_chat, chat_group_name,
                  groups, inbox, timers, pc, local >>

\* ------------------------------------------------------- management command
deactivate_chats ==
  /\ \E i \in 1..Len(chats) : chats[i].is_active
  /\ chats' = [i \in 1..Len(chats) |-> [chats[i] EXCEPT !.is_active = FALSE]]
  /\ ret' = Ret("deactivate_chats", None, None, NoChat, TRUE, "ok", << >>)
  /\ UNCHANGED << users, waiting, messages, now, connected, current_chat,
                  chat_group_name, groups, inbox, timers, pc, local >>

\* ------------------------------------------------- MatchingService, called
\* add_to_waiting_list(user, user.college), the call of both join_queue handlers
enqueue(u) ==
  /\ waiting' = add_to_waiting_list(waiting, now, u, college_of(u))
  /\ ret' = Ret("add_to_waiting_list", u, college_of(u), NoChat,
                created(waiting, u, college_of(u)), add_error(u, college_of(u)), << >>)
  /\ UNCHANGED << users, chats, messages, now, connected, current_chat,
                  chat_group_name, groups, inbox, timers, pc, local >>

\* add_to_waiting_list(user, college), any caller
call_add_to_waiting_list(u, college) ==
  /\ waiting' = add_to_waiting_list(waiting, now, u, college)
  /\ ret' = Ret("add_to_waiting_list", u, college, NoChat, created(waiting, u, college),
                add_error(u, college), << >>)
  /\ UNCHANGED << users, chats, messages, now, connected, current_chat,
                  chat_group_name, groups, inbox, timers, pc, local >>

\* remove_from_waiting_list(user, college), any caller
call_remove_from_waiting_list(u, college) ==
  /\ waiting' = remove_from_waiting_list(waiting, u, college)
  /\ ret' = RetRemoved(u, college, deleted_count(waiting, u, college))
  /\ UNCHANGED << users, chats, messages, now, connected, current_chat,
                  chat_group_name, groups, inbox, timers, pc, local >>

\* create_chat(user1, user2, college), any caller
call_create_chat(user1, user2, college) ==
  /\ \E made \in {create_chat(waiting, chats, messages, user1, user2, college)} :
       /\ waiting' = made.waiting
       /\ chats' = made.chats
       /\ messages' = made.messages
       /\ ret' = Ret("create_chat", user1, college, made.chat, made.chat # NoChat,
                     made.error, << << user1, user2 >> >>)
  /\ UNCHANGED << users, now, connected, current_chat, chat_group_name, groups,
                  inbox, timers, pc, local >>

\* try_match_users(college, include_service_accounts=True), the call of both
\* join_queue handlers and of the delayed task
match_users(college) ==
  LET r == try_match_users(waiting, chats, messages, now, college, TRUE, << >>) IN
  /\ waiting' = r.waiting
  /\ chats' = r.chats
  /\ messages' = r.messages
  /\ ret' = Ret("try_match_users", None, college, r.chat, r.chat # NoChat, r.error,
                r.proposed)
  /\ UNCHANGED << users, now, connected, current_chat, chat_group_name, groups,
                  inbox, timers, pc, local >>

match_service_account(order) ==
  LET r == try_match_service_account(waiting, chats, messages, now, order) IN
  /\ waiting' = r.waiting
  /\ chats' = r.chats
  /\ messages' = r.messages
  /\ ret' = Ret("try_match_service_account", None, None, r.chat, r.chat # NoChat,
                r.error, r.proposed)
  /\ UNCHANGED << users, now, connected, current_chat, chat_group_name, groups,
                  inbox, timers, pc, local >>

\* ------------------------------------------------------------------- matcher
\* a call of MatchingService.find_match
call_find_match(college, include_service_accounts) ==
  /\ ret' = RetMatch(college, include_service_accounts,
                     find_match(waiting, chats, now, college, include_service_accounts))
  /\ UNCHANGED << users, waiting, chats, messages, now, connected, current_chat,
                  chat_group_name, groups, inbox, timers, pc, local >>

\* --------------------------------------------------------------------- clock
Tick(seconds) ==
  /\ now' = now + seconds
  /\ ret' = Ret("tick", None, None, NoChat, FALSE, "ok", << >>)
  /\ UNCHANGED << users, waiting, chats, messages, connected, current_chat,
                  chat_group_name, groups, inbox, timers, pc, local >>


\* ---------------------------------------------------- requests, by statement
\* Every statement of a handler is its own transaction (autocommit); only
\* create_chat runs inside transaction.atomic.  A request occupies the lowest
\* free slot from its first statement to its last.
FreeSlot(r) == pc[r] = "idle" /\ \A q \in 1..(r - 1) : pc[q] # "idle"

Goto(r, label, vals) ==
  /\ pc' = [pc EXCEPT ![r] = label]
  /\ local' = [local EXCEPT ![r] = vals]

RaceUnchanged ==
  UNCHANGED << users, now, connected, current_chat, chat_group_name, groups, inbox,
               timers >>

\* join_queue: active_chat = get_active_chat(user)
join_queue_check(r, u) ==
  /\ FreeSlot(r)
  /\ IF get_active_chat(chats, u)
     THEN /\ ret' = Ret("join_queue", u, college_of(u), NoChat, FALSE, "active", << >>)
          /\ UNCHANGED << pc, local >>
     ELSE /\ ret' = Ret("get_active_chat", u, None, NoChat, FALSE, "ok", << >>)
          /\ Goto(r, "add_get", [NoLocal EXCEPT !.user = u])
  /\ UNCHANGED << waiting, chats, messages >>
  /\ RaceUnchanged

\* add_to_waiting_list, get_or_create: the SELECT
add_to_waiting_list_get(r) ==
  /\ pc[r] = "add_get"
  /\ LET u == local[r].user IN
     IF HasEntry(waiting, u, college_of(u))
     THEN /\ ret' = Ret("add_to_waiting_list", u, college_of(u), NoChat, FALSE, "ok", << >>)
          /\ Goto(r, "find", local[r])
     ELSE /\ ret' = Ret("get_or_create", u, college_of(u), NoChat, FALSE, "ok", << >>)
          /\ Goto(r, "add_create", local[r])
  /\ UNCHANGED << waiting, chats, messages >>
  /\ RaceUnchanged

\* add_to_waiting_list, get_or_create: the INSERT, which the unique and NOT
\* NULL constraints can reject; a rejected duplicate is fetched instead
add_to_waiting_list_create(r) ==
  /\ pc[r] = "add_create"
  /\ LET u == local[r].user IN
     /\ waiting' = add_to_waiting_list(waiting, now, u, college_of(u))
     /\ ret' = Ret("add_to_waiting_list", u, college_of(u), NoChat, waiting' # waiting,
                   IF add_error(u, college_of(u)) # "ok" THEN add_error(u, college_of(u))
                   ELSE IF HasEntry(waiting, u, college_of(u)) THEN "duplicate"
                   ELSE "ok", << >>)
     /\ IF add_error(u, college_of(u)) # "ok"
        THEN Goto(r, "idle", NoLocal)
        ELSE Goto(r, "find", local[r])
  /\ UNCHANGED << chats, messages >>
  /\ RaceUnchanged

\* delayed_match after its sleep: still_in_queue
delayed_match_check(r, u) ==
  /\ FreeSlot(r)
  /\ u \in {waiting[i].user : i \in 1..Len(waiting)}
  /\ ret' = Ret("still_in_queue", u, None, NoChat, TRUE, "ok", << >>)
  /\ Goto(r, "find", [NoLocal EXCEPT !.user = u])
  /\ UNCHANGED << waiting, chats, messages >>
  /\ RaceUnchanged

\* try_match_users: match = find_match(college, include_service_accounts)
try_match_find(r) ==
  /\ pc[r] = "find"
  /\ LET u == local[r].user
         match == find_match(waiting, chats, now, college_of(u), TRUE)
     IN IF match = NoMatch
        THEN /\ ret' = Ret("try_match_users", u, college_of(u), NoChat, FALSE, "ok", << >>)
             /\ Goto(r, "idle", NoLocal)
        ELSE /\ ret' = Ret("find_match", u, college_of(u), NoChat, TRUE, "ok", << match >>)
             /\ Goto(r, "check", [local[r] EXCEPT !.match = match])
  /\ UNCHANGED << waiting, chats, messages >>
  /\ RaceUnchanged

\* try_match_users: the two get_active_chat queries and the purge
try_match_check(r) ==
  /\ pc[r] = "check"
  /\ LET u == local[r].user
         stale == StaleUsers(chats, local[r].match)
     IN /\ waiting' = DeleteEntriesOf(waiting, stale)
        /\ ret' = Ret("get_active_chat", u, None, NoChat, stale # {}, "ok",
                      << local[r].match >>)
        /\ IF stale # {}
           THEN Goto(r, "find", [local[r] EXCEPT !.match = NoMatch])
           ELSE Goto(r, "create", local[r])
  /\ UNCHANGED << chats, messages >>
  /\ RaceUnchanged

\* try_match_users: return create_chat(user1, user2, chat_college)
try_match_create(r) ==
  /\ pc[r] = "create"
  /\ LET u == local[r].user
         match == local[r].match
         made == create_chat(waiting, chats, messages, match[1], match[2],
                             match_college(match[1], match[2], college_of(u)))
     IN /\ waiting' = made.waiting
        /\ chats' = made.chats
        /\ messages' = made.messages
        /\ ret' = Ret("try_match_users", u, college_of(u), made.chat, made.chat # NoChat,
                      made.error, << match >>)
  /\ Goto(r, "idle", NoLocal)
  /\ RaceUnchanged

\* end_chat: the handler gets hold of the Chat object.  The view fetches it
\* with is_active=True and checks the participant; the consumer took it from
\* get_active_chat(self.user) when it set self.current_chat.
end_chat_get(r, u, id) ==
  /\ FreeSlot(r)
  /\ id \in ActiveChats(chats, u)
  /\ ret' = Ret("get_chat", u, None, id, TRUE, "ok", << >>)
  /\ Goto(r, "end", [NoLocal EXCEPT !.user = u, !.chat = Snapshot(chats, id)])
  /\ UNCHANGED << waiting, chats, messages >>
  /\ RaceUnchanged

\* end_chat: success = MatchingService.end_chat(chat)
end_chat_call(r) ==
  /\ pc[r] = "end"
  /\ LET ended == end_chat(chats, messages, local[r].chat) IN
     /\ chats' = ended.chats
     /\ messages' = ended.messages
     /\ ret' = Ret("end_chat", local[r].user, None, local[r].chat.id, ended.success,
                   "ok", << >>)
  /\ Goto(r, "idle", NoLocal)
  /\ UNCHANGED waiting
  /\ RaceUnchanged

\* ------------------------------------------------------------ specifications
\* Spec: try_match_users on the database the service is started on.
Next ==
  \/ \E c \in {college_of(u) : u \in UserIds} : match_users(c)
  \/ now < MaxTime /\ Tick(1)

Spec == Init /\ [][Next]_vars

\* SpecMatcher: find_match on the database it is asked about.
NextMatcher ==
  \E c \in Colleges, incl \in BOOLEAN : call_find_match(c, incl)

SpecMatcher == InitMatcher /\ [][NextMatcher]_vars

\* SpecGateway: the websocket consumers, the channel layer and the delayed
\* tasks on top of the REST views; the clock moves in steps of the task delay.
Texts(msgs) == SelectSeq(msgs, LAMBDA m : m.message_type = "text")

GatewayBounded ==
  /\ Len(chats') <= MaxGatewayChats
  /\ InboxBounded(inbox')
  /\ Len(timers') <= MaxTimers

NextGateway ==
  \/ \E u \in UserIds : ws_connect(u)
  \/ \E u \in UserIds : ws_disconnect(u)
  \/ \E u \in UserIds : ws_join_queue(u) /\ GatewayBounded
  \/ \E u \in UserIds : ws_leave_queue(u)
  \/ \E u \in UserIds : chat_matched_handler(u)
  \/ \E k \in 1..MaxTimers : delayed_match(k) /\ GatewayBounded
  \/ \E u \in UserIds : rest_join_queue(u) /\ GatewayBounded
  \/ \E u \in UserIds, id \in 1..MaxGatewayChats : rest_end_chat(u, id)
  \/ now < MaxGatewayTime /\ Tick(DelaySeconds)

SpecGateway == InitEmpty(Pair) /\ [][NextGateway]_vars

\* SpecLifetime: one connection after another of two users who are matched,
\* part and are matched again; chats end through the REST view.  No delayed
\* task is pending: a join_queue is followed when its immediate attempt matches.
LifetimeBounded ==
  /\ Len(chats') <= MaxLifetimeChats
  /\ InboxBounded(inbox')
  /\ Len(timers') <= MaxChatTimers

NextLifetime ==
  \/ \E u \in UserIds : ws_connect(u)
  \/ \E u \in UserIds : ws_disconnect(u)
  \/ \E u \in UserIds : ws_join_queue(u) /\ LifetimeBounded
  \/ \E u \in UserIds : rest_join_queue(u) /\ LifetimeBounded
  \/ \E u \in UserIds : chat_matched_handler(u)
  \/ \E u \in UserIds, id \in 1..MaxLifetimeChats : rest_end_chat(u, id)
  \/ \E u \in UserIds, id \in 1..MaxLifetimeChats : ws_join_chat(u, id)
  \/ now < MaxGatewayTime /\ Tick(DelaySeconds)

SpecLifetime == InitEmpty(Pair) /\ [][NextLifetime]_vars

\* SpecChat: the chat handlers of the consumers; chats come from the queue
\* handlers and end through the consumer, the REST view or the command.
ChatBounded ==
  /\ Len(chats') <= MaxChatChats
  /\ InboxBounded(inbox')
  /\ Len(timers') <= MaxChatTimers
  /\ Len(Texts(messages')) <= MaxTexts

NextChat ==
  \/ \E u \in UserIds : ws_connect(u)
  \/ \E u \in UserIds : ws_disconnect(u)
  \/ \E u \in UserIds : ws_join_queue(u) /\ ChatBounded
  \/ \E u \in UserIds : rest_join_queue(u) /\ ChatBounded
  \/ \E u \in UserIds : chat_matched_handler(u)
  \/ \E u \in UserIds, id \in 1..MaxChatChats : ws_join_chat(u, id)
  \/ \E u \in UserIds, content \in Contents :
       ws_receive_send_message(u, content) /\ ChatBounded
  \/ \E u \in UserIds : ws_end_chat(u) /\ ChatBounded
  \/ \E u \in UserIds : chat_ended_handler(u)
  \/ \E u \in UserIds, id \in 1..MaxChatChats : rest_end_chat(u, id)
  \/ deactivate_chats

SpecChat == InitEmpty(Pair) /\ [][NextChat]_vars

\* SpecConnect: connections opened and closed by users with and without a
\* college, with and without a valid token; chats come from the REST views.
NextConnect ==
  \/ \E u \in UserIds : ws_connect(u)
  \/ \E u \in UserIds, authenticated \in BOOLEAN : ws_connect_closed(u, authenticated)
  \/ \E u \in UserIds : ws_disconnect(u)
  \/ \E u \in UserIds, frame \in Malformed : ws_receive_malformed(u, frame)
  \/ \E u \in UserIds : rest_join_queue(u) /\ Len(chats') <= MaxConnectChats
  \/ \E u \in UserIds, id \in 1..MaxConnectChats : rest_end_chat(u, id)

SpecConnect == InitEmpty(Lobby) /\ [][NextConnect]_vars

\* SpecCreate: create_chat called with any two users and any scope, and through
\* try_match_users, among a regular user and two service accounts.
NextCreate ==
  \/ \E u \in UserIds : enqueue(u)
  \/ \E u1, u2 \in UserIds, c \in Colleges \cup {None} :
       u1 # u2 /\ call_create_chat(u1, u2, c) /\ Len(chats') <= MaxCreateChats
  \/ \E c \in Colleges : match_users(c) /\ Len(chats') <= MaxCreateChats

SpecCreate == InitEmpty(Desk) /\ [][NextCreate]_vars

\* SpecScopes: find_match and try_match_users on waiting lists in which a user
\* may hold entries under several colleges.
NextScopes ==
  \/ \E u \in UserIds, c \in Colleges :
       call_add_to_waiting_list(u, c) /\ Len(waiting') <= MaxQueue
  \/ \E c \in Colleges, incl \in BOOLEAN : call_find_match(c, incl)
  \/ \E c \in Colleges : match_users(c) /\ Len(chats') <= MaxCreateChats

SpecScopes == InitEmpty(Desk) /\ [][NextScopes]_vars

\* SpecTown: users of two colleges and a service account join through the REST
\* view, end their chats and join again; try_match_users is also called for a
\* college the way the delayed task calls it.
NextTown ==
  \/ \E u \in UserIds : rest_join_queue(u) /\ Len(chats') <= MaxTownChats
  \/ \E u \in UserIds, id \in 1..MaxTownChats : rest_end_chat(u, id)
  \/ \E c \in Colleges : match_users(c) /\ Len(chats') <= MaxTownChats
  \/ now < MaxTime /\ Tick(DelaySeconds)

SpecTown == InitEmpty(Town) /\ [][NextTown]_vars

\* SpecTyping: the typing indicators of two users who are matched and connect.
NextTyping ==
  \/ \E u \in UserIds : ws_connect(u)
  \/ \E u \in UserIds : ws_disconnect(u)
  \/ \E u \in UserIds : ws_join_queue(u) /\ ChatBounded
  \/ \E u \in UserIds : rest_join_queue(u) /\ ChatBounded
  \/ \E u \in UserIds : chat_matched_handler(u)
  \/ \E u \in UserIds, is_typing \in BOOLEAN : ws_typing(u, is_typing) /\ ChatBounded
  \/ \E u \in UserIds : typing_handler(u)

SpecTyping == InitEmpty(Pair) /\ [][NextTyping]_vars

\* SpecRematch: four users of one college who have all chatted with each other
\* before.  a and b hold websocket connections, opened when nobody was in a
\* chat or waiting, and join through the consumer;
\* c and d join through the REST view.  Nobody ends a chat.  The clock moves in
\* seconds, as long as somebody may still join or a delayed task is asleep.
GatewayUsers == {"a", "b"}
RestUsers == {"c", "d"}
RepeatPairs ==
  << << "c", "d" >>, << "a", "b" >>, << "a", "c" >>, << "a", "d" >>,
     << "b", "c" >>, << "b", "d" >> >>

EndedChats(pairs) ==
  [k \in 1..Len(pairs) |->
     [college |-> "c1", participant1 |-> pairs[k][1], participant2 |-> pairs[k][2],
      created_at |-> k, is_active |-> FALSE]]

InitRematch ==
  /\ users = Square
  /\ connected = [u \in DOMAIN Square |-> u \in GatewayUsers]
  /\ current_chat = [u \in DOMAIN Square |-> NoSnapshot]
  /\ chat_group_name = [u \in DOMAIN Square |-> NoChat]
  /\ groups = [u \in DOMAIN Square |->
                IF u \in GatewayUsers THEN {UserChannel, CollegeChannel} ELSE {}]
  /\ inbox = [u \in DOMAIN Square |-> << >>]
  /\ timers = << >>
  /\ pc = [r \in Requests |-> "idle"]
  /\ local = [r \in Requests |-> NoLocal]
  /\ ret = Ret("init", None, None, NoChat, FALSE, "ok", << >>)
  /\ waiting = << >>
  /\ chats = EndedChats(RepeatPairs)
  /\ messages = MessagesOf(chats, Len(chats))
  /\ now = 0

RematchBounded ==
  /\ now <= MaxRematchJoin
  /\ Len(timers') <= MaxRematchTimers

Asleep == \E k \in 1..Len(timers) : now < timers[k].due

TimePasses == (now < MaxRematchJoin \/ Asleep) /\ Tick(1)

NextRematch ==
  \/ \E u \in GatewayUsers : ws_join_queue(u) /\ RematchBounded
  \/ \E u \in RestUsers : rest_join_queue(u) /\ now <= MaxRematchJoin
  \/ \E k \in 1..MaxRematchTimers : delayed_match(k)
  \/ TimePasses

SpecRematch == InitRematch /\ [][NextRematch]_vars

\* every delayed_match task runs once its sleep is over, and time passes
SpecRematchFair ==
  /\ SpecRematch
  /\ \A k \in 1..MaxRematchTimers : WF_vars(delayed_match(k))
  /\ WF_vars(TimePasses)

\* SpecRepeat: find_match on a campus whose users have chatted with each other
\* before.  Chats created in the same instant carry the same created_at.
CampusPairs == {<< "a", "b" >>, << "c", "a" >>, << "b", "c" >>}

RECURSIVE RepeatHistories(_)
RepeatHistories(n) ==
  IF n = 0 THEN {<< >>}
  ELSE LET shorter == RepeatHistories(n - 1)
           longest == {h \in shorter : Len(h) = n - 1}
       IN shorter \cup
          {Append(y[1], [college |-> "c1", participant1 |-> y[2][1],
                         participant2 |-> y[2][2], created_at |-> y[3],
                         is_active |-> FALSE]) :
             y \in {z \in longest \X CampusPairs \X (1..MaxChatTime) :
                      \A k \in 1..(n - 1) : z[1][k].created_at <= z[3]}}

InitRepeat ==
  /\ NoConsumers(Campus)
  /\ waiting \in Pools(Campus, MaxPool)
  /\ chats \in RepeatHistories(MaxRepeatHistory)
  /\ messages = MessagesOf(chats, Len(chats))
  /\ now = WaitThreshold

NextRepeat ==
  \/ \E incl \in BOOLEAN : call_find_match("c1", incl)
  \/ now < MaxTime /\ Tick(1)

SpecRepeat == InitRepeat /\ [][NextRepeat]_vars

\* SpecQueue: the waiting list operations of MatchingService called with any
\* user and scope, on an empty waiting list.
NextQueue ==
  \/ \E u \in UserIds : enqueue(u) /\ Len(waiting') <= MaxQueue
  \/ \E u \in UserIds, c \in Colleges \cup {None} :
       call_add_to_waiting_list(u, c) /\ Len(waiting') <= MaxQueue
  \/ \E u \in UserIds, c \in Colleges \cup {None} : call_remove_from_waiting_list(u, c)
  \/ now < MaxQueueTime /\ Tick(1)

SpecQueue == InitEmpty(Lobby) /\ [][NextQueue]_vars

\* SpecRace: requests of different connections interleaved statement by
\* statement on an empty database.
NextRace ==
  \/ \E r \in Requests, u \in UserIds : join_queue_check(r, u)
  \/ \E r \in Requests : add_to_waiting_list_get(r)
  \/ \E r \in Requests : add_to_waiting_list_create(r)
  \/ \E r \in Requests, u \in UserIds : delayed_match_check(r, u)
  \/ \E r \in Requests : try_match_find(r)
  \/ \E r \in Requests : try_match_check(r)
  \/ \E r \in Requests : try_match_create(r) /\ Len(chats') <= MaxRaceChats
  \/ \E u \in UserIds : rest_leave_queue(u)
  \/ \E r \in Requests, u \in UserIds, id \in 1..MaxRaceChats : end_chat_get(r, u, id)
  \/ \E r \in Requests : end_chat_call(r)

SpecRace == InitEmpty(Yard) /\ [][NextRace]_vars


\* ==================================================================== claims
\* the pool find_match is asked about, oldest first
PoolOf(college, include_service_accounts) ==
  SelectSeq(waiting, LAMBDA e :
    e.college = college \/ (include_service_accounts /\ users[e.user].is_service_account))

Fresh(u) == \A i \in 1..Len(chats) : ~is_participant(chats[i], u)
Chatted(u, v) ==
  \E i \in 1..Len(chats) : {chats[i].participant1, chats[i].participant2} = {u, v}
FreshAt(pool) == {i \in 1..Len(pool) : Fresh(pool[i].user)}
Least(S) == CHOOSE i \in S : \A j \in S : i <= j
WaitedAtLeast(e, seconds) == now - e.created_at >= seconds
MessagesIn(msgs, id) == SelectSeq(msgs, LAMBDA m : m.chat = id)
Participants(chat) == {chat.participant1, chat.participant2}
EntryUsers(w) == {w[i].user : i \in 1..Len(w)}

\* C4: when two fresh users A and B are the only users waiting in a college's
\* queue, try_match_users returns a new active chat with participants exactly
\* {A, B}; afterwards neither has a waiting entry and the chat holds exactly one
\* message, a system message without a sender.
C4_TwoFreshUsersAreMatched ==
  [][\A c \in Colleges :
       (/\ ret'.op = "try_match_users"
        /\ ret'.college = c
        /\ Len(PoolOf(c, TRUE)) = 2
        /\ FreshAt(PoolOf(c, TRUE)) = {1, 2})
       => LET pool == PoolOf(c, TRUE)
              id == ret'.chat
          IN /\ id = Len(chats) + 1
             /\ Len(chats') = id
             /\ chats'[id].is_active
             /\ Participants(chats'[id]) = {pool[1].user, pool[2].user}
             /\ EntryUsers(waiting') \cap {pool[1].user, pool[2].user} = {}
             /\ Len(MessagesIn(messages', id)) = 1
             /\ MessagesIn(messages', id)[1].message_type = "system"
             /\ MessagesIn(messages', id)[1].sender = None]_vars

C4_Witness ==
  /\ ret.op = "try_match_users"
  /\ ret.chat = Len(chats)
  /\ ret.chat # NoChat
  /\ \A u \in Participants(chats[ret.chat]) :
       /\ \A i \in 1..(Len(chats) - 1) : ~is_participant(chats[i], u)
       /\ u \notin EntryUsers(waiting)

\* C5: for every pool with at least two fresh users, find_match returns the
\* two oldest-waiting fresh users, however many experienced users wait ahead.
C5_TwoOldestFreshUsers ==
  ret.op = "find_match" =>
    LET pool == PoolOf(ret.college, ret.include_service_accounts)
        first == Least(FreshAt(pool))
        second == Least(FreshAt(pool) \ {first})
    IN Cardinality(FreshAt(pool)) >= 2 =>
         ret.match = << pool[first].user, pool[second].user >>

C5_Witness ==
  /\ ret.op = "find_match"
  /\ ret.include_service_accounts
  /\ LET pool == PoolOf(ret.college, TRUE) IN
       /\ Len(pool) = 3
       /\ FreshAt(pool) = {2, 3}
       /\ users[pool[3].user].is_service_account
       /\ ret.match = << pool[2].user, pool[3].user >>

\* C6: for every pool with exactly one fresh user and at least one experienced
\* user, find_match returns the fresh user with the first experienced user in
\* pool order, whatever time either has waited.
C6_FreshWithFirstExperienced ==
  ret.op = "find_match" =>
    LET pool == PoolOf(ret.college, ret.include_service_accounts)
        known == (1..Len(pool)) \ FreshAt(pool)
    IN (Cardinality(FreshAt(pool)) = 1 /\ known # {}) =>
         ret.match = << pool[Least(FreshAt(pool))].user, pool[Least(known)].user >>

C6_Witness ==
  /\ ret.op = "find_match"
  /\ LET pool == PoolOf(ret.college, ret.include_service_accounts) IN
       /\ Len(pool) = 3
       /\ FreshAt(pool) = {3}
       /\ ~WaitedAtLeast(pool[3], WaitThreshold)
       /\ ret.match = << pool[3].user, pool[1].user >>

\* C7: for every pool of experienced users only in which some pair never
\* shared a chat, find_match returns the first never-chatted pair in scan
\* order (i before j, oldest first) and never a pair that chatted before.
NovelAt(pool) ==
  {p \in (1..Len(pool)) \X (1..Len(pool)) :
     p[1] < p[2] /\ ~Chatted(pool[p[1]].user, pool[p[2]].user)}
Before(p, q) == p[1] < q[1] \/ (p[1] = q[1] /\ p[2] < q[2])
FirstNovel(pool) == CHOOSE p \in NovelAt(pool) : \A q \in NovelAt(pool) \ {p} : Before(p, q)

C7_FirstNovelPair ==
  ret.op = "find_match" =>
    LET pool == PoolOf(ret.college, ret.include_service_accounts) IN
    (Len(pool) >= 2 /\ FreshAt(pool) = {} /\ NovelAt(pool) # {}) =>
      /\ ret.match = << pool[FirstNovel(pool)[1]].user, pool[FirstNovel(pool)[2]].user >>
      /\ ~Chatted(ret.match[1], ret.match[2])

C7_Witness ==
  /\ ret.op = "find_match"
  /\ LET pool == PoolOf(ret.college, ret.include_service_accounts) IN
       /\ Len(pool) = 3
       /\ FreshAt(pool) = {}
       /\ NovelAt(pool) = {<< 2, 3 >>}
       /\ ~WaitedAtLeast(pool[3], WaitThreshold)
       /\ ret.match = << pool[2].user, pool[3].user >>

\* C8: in a pool where every user is experienced and every pair has chatted
\* before, a user who has waited less than 5 seconds is never in the proposed
\* pair and nothing is proposed unless two users have each waited 5 seconds;
\* when A and B, who chatted before and hold no active chat, are the only two
\* waiting, try_match_users returns none before both have waited 5 seconds and
\* a chat for {A, B} once both have.
AllChatted(pool) ==
  /\ FreshAt(pool) = {}
  /\ \A i, j \in 1..Len(pool) : i < j => Chatted(pool[i].user, pool[j].user)
ReadyAt(pool) == {i \in 1..Len(pool) : WaitedAtLeast(pool[i], WaitThreshold)}
FirstProposal(r) == IF r.proposed = << >> THEN NoMatch ELSE r.proposed[1]

C8_RepeatPairWaitsFiveSeconds ==
  [][\A c \in Colleges :
       (/\ ret'.op = "try_match_users"
        /\ ret'.college = c
        /\ Len(PoolOf(c, TRUE)) >= 2
        /\ AllChatted(PoolOf(c, TRUE)))
       => LET pool == PoolOf(c, TRUE)
              ready == {pool[i].user : i \in ReadyAt(pool)}
              first == FirstProposal(ret')
          IN /\ first # NoMatch => {first[1], first[2]} \subseteq ready
             /\ Cardinality(ready) < 2 =>
                  first = NoMatch /\ ret'.chat = NoChat /\ chats' = chats
             /\ (Len(pool) = 2 /\ \A i \in 1..2 : ~get_active_chat(chats, pool[i].user)) =>
                  IF Cardinality(ready) = 2
                  THEN /\ ret'.chat = Len(chats) + 1
                       /\ Participants(chats'[ret'.chat]) = {pool[1].user, pool[2].user}
                  ELSE ret'.chat = NoChat /\ waiting' = waiting]_vars

\* a repeat pair was matched while a third user, who chatted with both and
\* has not waited 5 seconds, stays in the pool
C8_Witness ==
  /\ ret.op = "try_match_users"
  /\ ret.chat = Len(chats)
  /\ ret.chat # NoChat
  /\ Len(waiting) = 1
  /\ ~WaitedAtLeast(waiting[1], WaitThreshold)
  /\ LET new == chats[ret.chat] IN
       /\ Cardinality(SharedChats(chats, new.participant1, new.participant2)) >= 2
       /\ Chatted(waiting[1].user, new.participant1)
       /\ Chatted(waiting[1].user, new.participant2)

\* C9: whenever find_match proposes a pair in which a user holds an active
\* chat, try_match_users deletes that user's waiting entries, creates no chat
\* with that user and asks the matcher again, so it returns none only when the
\* matcher has no pair left; with a stale entry for A (in an active chat) and
\* fresh C as the only entries it returns none, A's entry is gone, C's entry is
\* still there and no chat was created.
C9_StaleEntriesArePurged ==
  [][\A c \in Colleges :
       (ret'.op = "try_match_users" /\ ret'.college = c)
       => LET pool == PoolOf(c, TRUE) IN
          /\ \A k \in 1..Len(ret'.proposed) :
               \A u \in {ret'.proposed[k][1], ret'.proposed[k][2]} :
                 get_active_chat(chats, u) =>
                   /\ u \notin EntryUsers(waiting')
                   /\ ret'.chat # NoChat => ~is_participant(chats'[ret'.chat], u)
          /\ ret'.chat = NoChat =>
               /\ chats' = chats
               /\ find_match(waiting', chats', now, c, TRUE) = NoMatch
          /\ (/\ Len(pool) = 2
              /\ \E i \in 1..2 :
                   /\ get_active_chat(chats, pool[i].user)
                   /\ Fresh(pool[3 - i].user))
             => /\ ret'.chat = NoChat
                /\ Len(waiting') = Len(waiting) - 1
                /\ \E i \in 1..2 :
                     /\ Fresh(pool[i].user)
                     /\ pool[i] \in Range(waiting')
                     /\ pool[3 - i].user \notin EntryUsers(waiting')]_vars

C9_Witness ==
  /\ ret.op = "try_match_users"
  /\ ret.chat = NoChat
  /\ Len(ret.proposed) = 1
  /\ Len(waiting) = 1
  /\ Fresh(waiting[1].user)
  /\ waiting[1].user \in {ret.proposed[1][1], ret.proposed[1][2]}
  /\ \E u \in {ret.proposed[1][1], ret.proposed[1][2]} :
       get_active_chat(chats, u) /\ u \notin EntryUsers(waiting)


Quiescent == \A r \in Requests : pc[r] = "idle"
ClosingMessages(msgs, id) ==
  SelectSeq(msgs, LAMBDA m : m.chat = id /\ m.content = "ended")

\* C1: in every reachable state, under any interleaving of concurrent
\* join_queue, try_match, delayed re-match and end_chat requests, no user is a
\* participant of two different chats that are both active.
C1_NoUserInTwoActiveChats ==
  \A u \in UserIds : Cardinality(ActiveChats(chats, u)) <= 1

\* C2: in every reachable state, for every user and scope, at most one
\* WaitingListEntry exists, whatever interleaving of add_to_waiting_list,
\* remove_from_waiting_list and match operations has run.
C2_OneEntryPerUserAndScope ==
  \A i, j \in 1..Len(waiting) :
    (waiting[i].user = waiting[j].user /\ waiting[i].college = waiting[j].college)
      => i = j

\* two requests of one user raced through get_or_create and the INSERT of the
\* second was rejected
C2_Witness ==
  /\ ret.op = "add_to_waiting_list"
  /\ ret.error = "duplicate"
  /\ HasEntry(waiting, ret.user, ret.college)

\* C3: once the requests in flight have finished, no user who is a participant
\* of an active chat also holds a WaitingListEntry.
C3_NoGhostEntry ==
  Quiescent =>
    \A u \in UserIds : get_active_chat(chats, u) => u \notin EntryUsers(waiting)

\* C10: for any chat, the first end_chat call returns true, sets the chat
\* inactive and appends exactly one closing system message; every later
\* end_chat call on the same chat, whichever participant or connection issues
\* it, returns false, appends no message and changes nothing.
C10_EndChatOnce ==
  [][ret'.op = "end_chat" =>
       LET id == ret'.chat IN
       IF chats[id].is_active
       THEN /\ ret'.success
            /\ ~chats'[id].is_active
            /\ Len(ClosingMessages(messages', id)) = 1
            /\ Len(messages') = Len(messages) + 1
       ELSE /\ ~ret'.success
            /\ messages' = messages
            /\ chats' = chats]_vars


EntriesOf(w, u) == SelectSeq(w, LAMBDA e : e.user = u)
EntriesOfOthers(w, u) == SelectSeq(w, LAMBDA e : e.user # u)

\* C11: add_to_waiting_list is idempotent: when the user already has an entry
\* for the scope it returns false, creates no second entry and leaves the
\* existing entry (its creation timestamp and its place in the pool order)
\* unchanged; otherwise it creates exactly one entry and returns true.
C11_AddIsIdempotent ==
  [][(ret'.op = "add_to_waiting_list" /\ ret'.error = "ok") =>
       LET u == ret'.user
           scope == IF ret'.college = None THEN users[u].college ELSE ret'.college
       IN IF \E i \in 1..Len(waiting) : waiting[i].user = u /\ waiting[i].college = scope
          THEN ~ret'.success /\ waiting' = waiting
          ELSE /\ ret'.success
               /\ waiting' = Append(waiting, [user |-> u, college |-> scope,
                                              created_at |-> now])]_vars

\* a second add, later than the first, found the entry and left its timestamp
C11_Witness ==
  /\ ret.op = "add_to_waiting_list"
  /\ ret.error = "ok"
  /\ ~ret.success
  /\ \E i \in 1..Len(waiting) :
       /\ waiting[i].user = ret.user
       /\ waiting[i].created_at < now
       /\ i < Len(waiting)

\* C12: remove_from_waiting_list returns true exactly when it deleted at least
\* one entry; the same removal called twice in a row returns false the second
\* time; with the scope omitted every entry of the user, across all scopes, is
\* removed and the entries of other users are untouched.
C12_RemoveReportsDeletion ==
  [][ret'.op = "remove_from_waiting_list" =>
       LET u == ret'.user IN
       /\ ret'.success <=> Len(waiting') < Len(waiting)
       /\ EntriesOfOthers(waiting', u) = EntriesOfOthers(waiting, u)
       /\ IF ret'.college = None
          THEN EntriesOf(waiting', u) = << >>
          ELSE EntriesOf(waiting', u)
                 = SelectSeq(EntriesOf(waiting, u), LAMBDA e : e.college # ret'.college)
       /\ (/\ ret.op = "remove_from_waiting_list"
           /\ ret.user = u
           /\ ret.college = ret'.college) => ~ret'.success]_vars

\* a removal without a scope deleted the user's entries under two scopes and
\* left another user's entry
C12_Witness ==
  /\ ret.op = "remove_from_waiting_list"
  /\ ret.college = None
  /\ ret.deleted_count = 2
  /\ waiting # << >>
  /\ \A i \in 1..Len(waiting) : waiting[i].user # ret.user

\* C13: enqueueing a non-service user who has no organization is rejected with
\* an error and creates no WaitingListEntry; a service account without an
\* organization is accepted and gets an entry with scope none.
C13_EnqueueWithoutOrganization ==
  [][(/\ ret'.op = "add_to_waiting_list"
      /\ users[ret'.user].college = None
      /\ ret'.college = None) =>
       IF users[ret'.user].is_service_account
       THEN /\ ret'.error = "ok"
            /\ \E i \in 1..Len(waiting') :
                 waiting'[i].user = ret'.user /\ waiting'[i].college = None
       ELSE ret'.error # "ok" /\ waiting' = waiting]_vars

\* C14: a join_queue from a caller who already has an active chat adds no
\* WaitingListEntry, makes no match attempt and schedules no delayed re-match;
\* it answers with the existing chat and joins the connection to that chat's
\* channel.
C14_JoinQueueWithActiveChat ==
  [][(ret'.op = "ws_join_queue" /\ ActiveChats(chats, ret'.user) # {}) =>
       LET u == ret'.user IN
       /\ waiting' = waiting
       /\ chats' = chats
       /\ messages' = messages
       /\ timers' = timers
       /\ inbox' = inbox
       /\ ret'.sent = << >>
       /\ ret'.chat \in ActiveChats(chats, u)
       /\ chat_group_name'[u] = ret'.chat
       /\ current_chat'[u] = Snapshot(chats, ret'.chat)
       /\ groups'[u] = groups[u] \cup {ret'.chat}]_vars

\* the caller was matched by someone else's join_queue and asked to join the
\* queue before its consumer handled the matched event
C14_Witness ==
  /\ ret.op = "ws_join_queue"
  /\ ret.error = "active"
  /\ ret.chat \in groups[ret.user]
  /\ inbox[ret.user] # << >>
  /\ Head(inbox[ret.user]) = Matched(ret.chat)

\* the WaitingListEntry join_queue creates for u
JoinEntry(u) == [user |-> u, college |-> entry_college(u, college_of(u)), created_at |-> now]

C16_BothParticipantsNotified ==
  [][/\ Len(chats') > Len(chats) =>
          \A p \in Participants(chats'[Len(chats')]) :
            connected[p] => inbox'[p] = Append(inbox[p], Matched(Len(chats')))
     /\ ret'.op = "chat_matched_handler" =>
          ret'.chat \in groups'[ret'.user]]_vars

\* the chat channels u's connection is a member of
ChatChannels(u) == groups[u] \ {UserChannel, CollegeChannel}

\* C17: a send_message with non-empty text from a connection that is joined to
\* a chat channel, however it joined (initial state, join_chat, or the
\* auto-join on a matched event), persists exactly one ordinary Message with
\* that chat and that sender and fans it out to every connection in the chat
\* channel.
C17_SendMessagePersistsAndFansOut ==
  [][(ret'.op = "ws_send_message" /\ ChatChannels(ret'.user) # {}) =>
       LET u == ret'.user IN
       \E id \in ChatChannels(u) :
         /\ messages' = Append(messages, [chat |-> id, sender |-> u,
                                          message_type |-> "text", content |-> "text"])
         /\ ret'.sent = << Sent("chat_message_handler", id, Members(id)) >>]_vars

\* C18: join_chat(id) joins the connection to the chat channel only when the
\* caller is a participant of an active chat with that id; for a chat the caller
\* is not a participant of, a chat that does not exist or a chat that is no
\* longer active, the caller gets an error and the connection's current chat
\* and channel memberships are unchanged.
C18_JoinChatOnlyActiveParticipant ==
  [][ret'.op = "ws_join_chat" =>
       LET u == ret'.user
           id == ret'.chat
       IN IF id \in ActiveChats(chats, u)
          THEN /\ ret'.error = "ok"
               /\ id \in groups'[u]
               /\ current_chat'[u].id = id
          ELSE /\ ret'.error # "ok"
               /\ current_chat' = current_chat
               /\ chat_group_name' = chat_group_name
               /\ groups' = groups]_vars

\* C19: when a connection disconnects it is removed from every channel it
\* joined during its lifetime (its user channel, its college channel and every
\* chat channel it was added to by the initial state, join_queue, join_chat or
\* a matched event), and one offline presence update for that user is
\* broadcast to the college channel.
C19_DisconnectLeavesEveryChannel ==
  [][ret'.op = "ws_disconnect" =>
       /\ groups'[ret'.user] = {}
       /\ Len(ret'.sent) = 1
       /\ ret'.sent[1].type = "presence_update"
       /\ ret'.sent[1].group = CollegeChannel]_vars

\* C20: end_chat from a connection that is in a chat ends that chat; when the
\* end succeeds every connection in the chat channel is sent a chat-ended
\* notification and leaves the chat channel on handling it, and an activity
\* update goes to the college channel; when the end does not succeed (the chat
\* is already inactive) or the caller is in no chat, nothing is fanned out and
\* no state changes.
C20_EndChatFromConnection ==
  [][/\ ret'.op = "ws_end_chat" =>
          LET u == ret'.user
              id == chat_group_name[u]
          IN IF id # NoChat /\ chats[id].is_active
             THEN /\ ret'.success
                  /\ ~chats'[id].is_active
                  /\ inbox' = SendToChat(inbox, id, Ended)
                  /\ ret'.sent = << Sent("chat_ended_handler", id, Members(id)),
                                    activity_update(u) >>
             ELSE /\ ret'.sent = << >>
                  /\ inbox' = inbox
                  /\ chats' = chats
                  /\ messages' = messages
     /\ (ret'.op = "chat_ended_handler" /\ chat_group_name[ret'.user] # NoChat) =>
          /\ chat_group_name[ret'.user] \notin groups'[ret'.user]
          /\ chat_group_name'[ret'.user] = NoChat]_vars

\* the channel names a successful connect of u joins besides a chat channel
OwnChannels(u) ==
  {"user_" \o u,
   IF users[u].college # None THEN "college_" \o users[u].college
   ELSE "college_service_accounts"}

\* connect refused: the close code, and no channel joined
ConnectRefused(u, code) ==
  /\ ret'.error = code
  /\ ret'.joined = {}
  /\ ~connected'[u]
  /\ groups' = groups

\* C21 as stated: a connection that fails authentication is closed with the
\* unauthorized code and an authenticated regular user without a college with
\* the no-college code, joining no channel; a successful connect joins exactly
\* the user's own user channel and one college channel (the shared
\* service-account channel when the user has no college).
C21_ConnectJoinsExactlyTwoChannels ==
  [][ret'.op = "ws_connect" =>
       LET u == ret'.user IN
       IF ~ret'.authenticated THEN ConnectRefused(u, "4001")
       ELSE IF users[u].college = None /\ ~users[u].is_service_account
       THEN ConnectRefused(u, "4002")
       ELSE /\ connected'[u]
            /\ ret'.joined = OwnChannels(u)]_vars

\* C21, amended: as stated, except that a successful connect of a user who has
\* an active chat joins, besides the user channel and the one college channel,
\* the channel of that chat.
C21_ConnectJoinsOwnChannels ==
  [][ret'.op = "ws_connect" =>
       LET u == ret'.user IN
       IF ~ret'.authenticated THEN ConnectRefused(u, "4001")
       ELSE IF users[u].college = None /\ ~users[u].is_service_account
       THEN ConnectRefused(u, "4002")
       ELSE /\ connected'[u]
            /\ IF ActiveChats(chats, u) = {}
               THEN /\ ret'.joined = OwnChannels(u)
                    /\ groups'[u] = {UserChannel, CollegeChannel}
               ELSE \E id \in ActiveChats(chats, u) :
                      /\ ret'.joined = OwnChannels(u) \cup {"chat_" \o ToString(id)}
                      /\ groups'[u] = {UserChannel, CollegeChannel, id}]_vars

\* a service account without a college connected and joined the shared channel
C21_Witness ==
  /\ ret.op = "ws_connect"
  /\ ret.success
  /\ users[ret.user].college = None
  /\ "college_service_accounts" \in ret.joined
  /\ connected[ret.user]

\* the users, other than u, who are waiting and have no chat history
FreshWaiting(u) ==
  {v \in EntryUsers(waiting) \ {u} : ~has_any_chat_history(chats, v)}

\* C22: a service account is matched against one merged pool: when a service
\* account without an active chat joins the queue while some other fresh user
\* (a regular user of any college, or a service account with or without a
\* college) is waiting, the match attempt creates a chat between the service
\* account and such a user.
C22_ServiceAccountMergedPool ==
  [][(/\ ret'.op = "rest_join_queue"
      /\ users[ret'.user].is_service_account
      /\ ret'.user \notin EntryUsers(waiting)
      /\ ActiveChats(chats, ret'.user) = {}
      /\ FreshWaiting(ret'.user) # {}) =>
       /\ Len(chats') = Len(chats) + 1
       /\ ret'.user \in Participants(chats'[Len(chats')])
       /\ Participants(chats'[Len(chats')]) \cap FreshWaiting(ret'.user) # {}]_vars

\* the participants of the pair who are not service accounts
Regulars(pair) == {u \in {pair[1], pair[2]} : ~users[u].is_service_account}

\* C23: a new chat's college is the scope when one is provided, otherwise the
\* college of the non-service participant, otherwise none when both
\* participants are service accounts; a chat that try_match_users creates
\* between a service account and a regular user carries the regular user's
\* college.
C23_ChatCollege ==
  [][/\ ret'.op = "create_chat" =>
          LET pair == ret'.proposed[1] IN
          /\ ret'.error = "ok"
          /\ Len(chats') = Len(chats) + 1
          /\ Participants(chats'[Len(chats')]) = {pair[1], pair[2]}
          /\ chats'[Len(chats')].college =
               IF ret'.college # None THEN ret'.college
               ELSE IF Regulars(pair) # {}
               THEN users[CHOOSE u \in Regulars(pair) : TRUE].college
               ELSE None
     /\ (ret'.op = "try_match_users" /\ ret'.chat # NoChat) =>
          LET pair == ret'.proposed[Len(ret'.proposed)] IN
          Cardinality(Regulars(pair)) = 1 =>
            chats'[ret'.chat].college = users[CHOOSE u \in Regulars(pair) : TRUE].college]_vars

\* C24: a malformed client frame (text that is not valid JSON, or JSON that is
\* not an object carrying an action) produces an error event to the sender
\* only; the connection stays open and no waiting-list, chat, message or
\* channel-membership state changes.
C24_MalformedFrameIsNotFatal ==
  [][ret'.op = "ws_receive" =>
       /\ ret'.reply = "error"
       /\ ret'.sent = << >>
       /\ connected'[ret'.user]
       /\ UNCHANGED << waiting, chats, messages, groups, chat_group_name,
                       current_chat, inbox >>]_vars

\* a step of receive on a send_message frame whose text is empty or whitespace
EmptySendMessage(u) == \E content \in {"", " "} : ws_receive_send_message(u, content)

\* C25 as stated: a send_message whose text is empty (or only whitespace) is
\* reported to the caller only: the caller receives an error event, no Message
\* is persisted, nothing is fanned out to the chat channel, and the connection
\* stays open.
C25_EmptyMessageIsReported ==
  [][\A u \in UserIds : EmptySendMessage(u) =>
       /\ messages' = messages
       /\ inbox' = inbox
       /\ ret'.sent = << >>
       /\ connected'[u]
       /\ ret'.reply = "error"]_vars

\* C25, amended: a send_message whose text is empty (or only whitespace) is
\* dropped: the caller receives no event, no Message is persisted, nothing is
\* fanned out to the chat channel, and the connection stays open.
C25_EmptyMessageIsDropped ==
  [][\A u \in UserIds : EmptySendMessage(u) =>
       /\ messages' = messages
       /\ inbox' = inbox
       /\ ret'.sent = << >>
       /\ connected'[u]
       /\ ret'.reply = "none"]_vars

\* a connection that can send into its chat sent an empty text
C25_Witness ==
  /\ ret.op = "ws_receive_send_message"
  /\ ret.error = "empty"
  /\ current_chat[ret.user] # NoSnapshot
  /\ current_chat[ret.user].is_active
  /\ Members(chat_group_name[ret.user]) # {}

\* C26: leave_queue through the gateway removes the caller's waiting entry if
\* there is one and broadcasts an activity update to the college channel only
\* when an entry was actually removed; a leave_queue by a user who is not
\* enqueued broadcasts nothing and changes no state.
C26_LeaveQueueBroadcastsOnRemoval ==
  [][ret'.op = "ws_leave_queue" =>
       LET u == ret'.user IN
       /\ EntriesOf(waiting', u) = << >>
       /\ EntriesOfOthers(waiting', u) = EntriesOfOthers(waiting, u)
       /\ IF EntriesOf(waiting, u) # << >>
          THEN ret'.sent = << Sent("activity_update_handler", CollegeChannel,
                                   CollegeMembers(users[u].college)) >>
          ELSE ret'.sent = << >> /\ waiting' = waiting
       /\ UNCHANGED << chats, messages, connected, current_chat, chat_group_name,
                       groups, inbox, timers >>]_vars

\* a leave_queue found nothing to remove while another user was waiting
C26_Witness ==
  /\ ret.op = "ws_leave_queue"
  /\ ~ret.success
  /\ ret.sent = << >>
  /\ waiting # << >>

\* C27: a typing_start or typing_stop from a connection in a chat is fanned out
\* to the chat channel and reaches the connections of the other participant;
\* the sender never receives an echo of its own typing event, and a connection
\* that is in no chat channel fans out nothing.
C27_TypingFanOutWithoutEcho ==
  [][/\ ret'.op = "ws_typing" =>
          LET u == ret'.user
              id == chat_group_name[u]
              event == [type |-> IF ret'.is_typing THEN "typing_start_handler"
                                 ELSE "typing_stop_handler",
                        chat_id |-> NoChat, user_id |-> u]
          IN /\ ChatChannels(u) = {} => id = NoChat
             /\ IF id # NoChat
                THEN /\ ret'.sent = << Sent(event.type, id, Members(id)) >>
                     /\ \A v \in UserIds :
                          inbox'[v] = IF connected[v] /\ id \in groups[v]
                                      THEN Append(inbox[v], event) ELSE inbox[v]
                ELSE ret'.sent = << >> /\ inbox' = inbox
     /\ ret'.op = "typing_handler" =>
          IF ret'.from = ret'.user THEN ret'.reply = "none"
          ELSE ret'.reply \in {"typing_start", "typing_stop"}]_vars

\* the consumer of the sender handled its own typing event and sent nothing
C27_Witness ==
  /\ ret.op = "typing_handler"
  /\ ret.from = ret.user
  /\ ret.reply = "none"
  /\ \E v \in UserIds \ {ret.user} :
       /\ inbox[v] # << >>
       /\ inbox[v][Len(inbox[v])].type \in {"typing_start_handler", "typing_stop_handler"}
       /\ inbox[v][Len(inbox[v])].user_id = ret.user

\* the passes of the loop of try_match_users a call made: one per pair the
\* matcher proposed, and a last one when the matcher had no pair left
Iterations(r) ==
  Len(r.proposed) + (IF r.chat = NoChat /\ r.error = "ok" THEN 1 ELSE 0)

\* C28: try_match_users always terminates: every pass of its loop either
\* leaves the loop (the matcher has no candidate pair, or the pass went on to
\* create the chat) or deletes the waiting entries of a proposed user who was
\* in the pool, a user no later pass proposes again; so a call makes at most
\* as many passes as the pool has entries (one pass when the pool has fewer
\* than two), and it removes at least one entry per pass that loops.
C28_TryMatchUsersTerminates ==
  [][\A c \in Colleges :
       (ret'.op = "try_match_users" /\ ret'.college = c)
       => LET pool == PoolOf(c, TRUE)
              n == Iterations(ret')
          IN /\ n <= (IF Len(pool) < 2 THEN 1 ELSE Len(pool))
             /\ \A k \in 1..(n - 1) :
                  /\ StaleUsers(chats, ret'.proposed[k]) # {}
                  /\ \A u \in StaleUsers(chats, ret'.proposed[k]) :
                       /\ u \in EntryUsers(pool)
                       /\ u \notin EntryUsers(waiting')
                       /\ \A l \in (k + 1)..Len(ret'.proposed) :
                            u \notin {ret'.proposed[l][1], ret'.proposed[l][2]}
             /\ Len(waiting) - Len(waiting') >= n - 1
             /\ (ret'.chat = NoChat /\ ret'.error = "ok")
                => find_match(waiting', chats', now, c, TRUE) = NoMatch]_vars

\* a call of three passes: two passes each purged a stale entry of the pool,
\* the third found no pair left for the one entry that remains
C28_Witness ==
  /\ ret.op = "try_match_users"
  /\ ret.chat = NoChat
  /\ Iterations(ret) = 3
  /\ Len(waiting) = 1
  /\ \A k \in 1..2 :
       /\ StaleUsers(chats, ret.proposed[k]) # {}
       /\ StaleUsers(chats, ret.proposed[k]) \cap EntryUsers(waiting) = {}
  /\ StaleUsers(chats, ret.proposed[1]) # StaleUsers(chats, ret.proposed[2])

\* C30: when the delayed re-match timer fires it first re-checks that the
\* triggering user still has a WaitingListEntry; if the user has none left
\* (they left the queue or were matched in the meantime), the timer makes no
\* match attempt, creates no chat, sends no event and changes nothing; if the
\* user has one, the timer does make the attempt.
C30_DelayedMatchRechecksEntry ==
  [][\A k \in 1..MaxTimers :
       delayed_match(k)
       => IF timers[k].user \in EntryUsers(waiting)
          THEN ret'.success
          ELSE /\ ~ret'.success
               /\ ret'.chat = NoChat
               /\ ret'.proposed = << >>
               /\ ret'.sent = << >>
               /\ UNCHANGED << waiting, chats, messages, inbox, groups,
                               current_chat, chat_group_name >>]_vars

\* the timer of a user who left the queue fired while the other user of the
\* college was waiting, and left that user waiting
C30_Witness ==
  /\ ret.op = "delayed_match"
  /\ ~ret.success
  /\ ret.user \notin EntryUsers(waiting)
  /\ ~get_active_chat(chats, ret.user)
  /\ \E v \in UserIds \ {ret.user} :
       /\ v \in EntryUsers(waiting)
       /\ college_of(v) = ret.college

\* the timer of a user who was matched in the meantime fired and did nothing
C30_WitnessMatched ==
  /\ ret.op = "delayed_match"
  /\ ~ret.success
  /\ get_active_chat(chats, ret.user)

BothEnqueued == GatewayUsers \subseteq EntryUsers(waiting)
Together ==
  \E i \in 1..Len(chats) : chats[i].is_active /\ Participants(chats[i]) = GatewayUsers

\* C29: if two users of the same college have both joined the queue through
\* the websocket consumer and stay enqueued (neither leaves nor is matched with
\* someone else), they are eventually placed in a chat with each other by an
\* immediate or a delayed match attempt, even when they have chatted with each
\* other before and no new user arrives, whatever the gap between their joins.
C29_EnqueuedPairEventuallyMatched ==
  BothEnqueued ~> (Together \/ ~BothEnqueued)

\* C31: disconnecting a connection cancels that connection's pending delayed
\* re-match task: a delayed_match task that runs after its user's consumer has
\* gone makes no match attempt and creates no chat.
C31_DisconnectCancelsDelayedMatch ==
  [][\A k \in 1..MaxTimers :
       (delayed_match(k) /\ ~connected[timers[k].user])
       => (~ret'.success /\ chats' = chats /\ waiting' = waiting)]_vars

\* the positions of the pool's pairs in scan order, both users waited 5 seconds
EligiblePairs(pool) ==
  {p \in (1..Len(pool)) \X (1..Len(pool)) :
     /\ p[1] < p[2]
     /\ WaitedAtLeast(pool[p[1]], WaitThreshold)
     /\ WaitedAtLeast(pool[p[2]], WaitThreshold)}

\* the creation time of the latest chat the two users shared
LastShared(u, v) ==
  LET times == {chats[i].created_at : i \in {k \in 1..Len(chats) :
                                               Participants(chats[k]) = {u, v}}}
  IN CHOOSE t \in times : \A x \in times : x <= t

ScannedBefore(p, q) == p[1] < q[1] \/ (p[1] = q[1] /\ p[2] < q[2])

\* every user of the pool has chatted with every other user of the pool
AllRepeats(pool) ==
  /\ Len(pool) >= 2
  /\ \A i, j \in 1..Len(pool) : i # j => Chatted(pool[i].user, pool[j].user)

\* C32: in the oldest-repeat tier (every waiting user has chatted with every
\* other one), among the pairs whose users have both waited at least 5 seconds
\* find_match returns the pair whose most recent shared chat has the oldest
\* creation time, the first such pair in pool scan order when several tie, and
\* no pair when no pair has waited long enough.
C32_OldestRepeatFirst ==
  [][(ret'.op = "find_match" /\ AllRepeats(PoolOf(ret'.college, TRUE)))
     => LET pool == PoolOf(ret'.college, TRUE)
            eligible == EligiblePairs(pool)
        IN IF eligible = {} THEN ret'.match = NoMatch
           ELSE \E p \in eligible :
                  /\ ret'.match = << pool[p[1]].user, pool[p[2]].user >>
                  /\ \A q \in eligible \ {p} :
                       LET mine == LastShared(pool[p[1]].user, pool[p[2]].user)
                           other == LastShared(pool[q[1]].user, pool[q[2]].user)
                       IN mine < other \/ (mine = other /\ ScannedBefore(p, q))]_vars

\* find_match returned the second pair it scanned, whose last chat is older
\* than the first pair's, and passed over a third pair that ties with it
C32_Witness ==
  /\ ret.op = "find_match"
  /\ Len(waiting) = 3
  /\ AllRepeats(waiting)
  /\ EligiblePairs(waiting) = {<< 1, 2 >>, << 1, 3 >>, << 2, 3 >>}
  /\ ret.match = << waiting[1].user, waiting[3].user >>
  /\ LastShared(waiting[1].user, waiting[3].user) < LastShared(waiting[1].user, waiting[2].user)
  /\ LastShared(waiting[1].user, waiting[3].user) = LastShared(waiting[2].user, waiting[3].user)

\* C33: after a successful join_chat the connection is a member of the new
\* chat's channel and of no other chat channel: any chat channel it was in
\* before is left.
C33_JoinChatLeavesPriorChannels ==
  [][\A u \in UserIds :
       (ret'.op = "ws_join_chat" /\ ret'.user = u /\ ret'.success)
       => ChatChannels(u)' = {ret'.chat}]_vars

OpeningMessages(msgs, id) ==
  SelectSeq(msgs, LAMBDA m : m.chat = id /\ m.message_type = "system" /\ m.content = "started")

\* C34: in every reachable state each Chat has exactly one opening system
\* message, an active chat has no closing system message, and an inactive chat
\* has exactly one closing system message, whichever operation created or
\* ended it.
C34_OneOpeningOneClosingMessage ==
  \A id \in 1..Len(chats) :
    /\ Len(OpeningMessages(messages, id)) = 1
    /\ Len(ClosingMessages(messages, id)) = (IF chats[id].is_active THEN 0 ELSE 1)

MatchOps == {"ws_join_queue", "rest_join_queue", "delayed_match", "try_match_users",
             "try_match_service_account"}

\* C35: a Chat is created only as part of a match (by a match attempt, active,
\* between two users who were both waiting and are dequeued with it) and is
\* never deleted, and its active flag only ever changes from true to false:
\* once a chat is inactive no operation makes it active again.
C35_ChatLifecycle ==
  [][/\ Len(chats') \in {Len(chats), Len(chats) + 1}
     /\ \A id \in 1..Len(chats) :
          \/ chats'[id] = chats[id]
          \/ chats[id].is_active /\ chats'[id] = [chats[id] EXCEPT !.is_active = FALSE]
     /\ Len(chats') = Len(chats) + 1
        => LET new == chats'[Len(chats')] IN
           /\ ret'.op \in MatchOps
           /\ ret'.chat = Len(chats')
           /\ new.is_active
           /\ new.participant1 # new.participant2
           /\ Participants(new) \cap EntryUsers(waiting') = {}
           /\ Participants(new) \ {ret'.user} \subseteq EntryUsers(waiting)]_vars

\* end_chat was asked for on a connection whose chat is already inactive, and
\* the chat is still inactive
C35_Witness ==
  /\ ret.op = "ws_end_chat"
  /\ ret.chat # NoChat
  /\ ~ret.success
  /\ ~chats[ret.chat].is_active

\* C36: every pair returned by find_match, and therefore every Chat ever
\* created, consists of two distinct users, also when one user holds waiting
\* entries under more than one college that fall into the same pool.
C36_MatchedUsersAreDistinct ==
  [][/\ (ret'.op = "find_match" /\ ret'.match # NoMatch)
        => ret'.match[1] # ret'.match[2]
     /\ \A id \in 1..Len(chats') :
          chats'[id].participant1 # chats'[id].participant2]_vars

\* C37: organization isolation: two non-service users are placed in a chat
\* together only if they belong to the same college, and that chat carries
\* their college; every chat whose participants belong to different colleges
\* includes at least one service account.
C37_OrganizationIsolation ==
  \A id \in 1..Len(chats) :
    LET p1 == chats[id].participant1
        p2 == chats[id].participant2
    IN /\ (~is_service_account(p1) /\ ~is_service_account(p2))
          => (college_of(p1) = college_of(p2) /\ chats[id].college = college_of(p1))
       /\ college_of(p1) # college_of(p2)
          => (is_service_account(p1) \/ is_service_account(p2))

\* a chat between two users of one college, and a chat across colleges with
\* the service account
C37_Witness ==
  /\ \E id \in 1..Len(chats) :
       /\ ~is_service_account(chats[id].participant1)
       /\ ~is_service_account(chats[id].participant2)
  /\ \E id \in 1..Len(chats) :
       college_of(chats[id].participant1) # college_of(chats[id].participant2)

\* SpecRoom: three users of one college, so that a chat has a user who is no
\* participant of it; chats come from the REST view, connections open, join
\* chats by id, send and close.
RoomBounded ==
  /\ Len(chats') <= MaxRoomChats
  /\ InboxBounded(inbox')
  /\ Len(timers') <= MaxChatTimers
  /\ Len(Texts(messages')) <= MaxRoomTexts

NextRoom ==
  \/ \E u \in UserIds : ws_connect(u)
  \/ \E u \in UserIds : ws_disconnect(u)
  \/ \E u \in UserIds : rest_join_queue(u) /\ RoomBounded
  \/ \E u \in UserIds : ws_join_queue(u) /\ RoomBounded
  \/ \E u \in UserIds, id \in 1..MaxRoomChats : ws_join_chat(u, id)
  \/ \E u \in UserIds : ws_send_message(u) /\ RoomBounded
  \/ \E u \in UserIds, id \in 1..MaxRoomChats : rest_end_chat(u, id)

SpecRoom == InitEmpty(Campus) /\ [][NextRoom]_vars

\* C38: every text message has a sender who is a participant of the message's
\* chat, and the current chat of a connection is a chat in which the
\* connection's user is a participant.
C38_SenderIsParticipant ==
  /\ \A i \in 1..Len(messages) :
       messages[i].message_type = "text"
         => messages[i].sender \in Participants(chats[messages[i].chat])
  /\ \A u \in UserIds :
       current_chat[u] # NoSnapshot => u \in Participants(chats[current_chat[u].id])

\* a text message stands in a chat that has a non-participant, and a connected
\* non-participant has just been refused by join_chat on that chat
C38_Witness ==
  /\ ret.op = "ws_join_chat"
  /\ ret.error = "forbidden"
  /\ connected[ret.user]
  /\ \E i \in 1..Len(messages) :
       /\ messages[i].message_type = "text"
       /\ messages[i].chat = ret.chat
       /\ ret.user \notin Participants(chats[ret.chat])

\* C39: once a chat is inactive no message is appended to it: a step taken
\* while a chat is inactive leaves the messages of that chat as they are.
C39_NoMessageAfterEnd ==
  [][\A id \in 1..Len(chats) :
       ~chats[id].is_active
         => SelectSeq(messages', LAMBDA m : m.chat = id)
              = SelectSeq(messages, LAMBDA m : m.chat = id)]_vars

\* C40: disconnect changes channel membership only: the waiting list, the
\* chats with their active flags and the messages are as before, so a user who
\* disconnects while enqueued is still in the pool of the user's college.
C40_DisconnectLeavesTheStore ==
  [][ret'.op = "ws_disconnect" =>
       /\ waiting' = waiting
       /\ chats' = chats
       /\ messages' = messages
       /\ ret'.user \in EntryUsers(waiting)
            => ret'.user \in EntryUsers(waiting_entries(waiting', college_of(ret'.user),
                                                       FALSE))]_vars

\* a user has disconnected while enqueued, and a match attempt on the college
\* now selects that user
C40_Witness ==
  /\ ret.op = "ws_disconnect"
  /\ ~connected[ret.user]
  /\ ret.user \in EntryUsers(waiting)
  /\ \E r \in {find_match(waiting, chats, now, college_of(ret.user), FALSE)} :
       /\ r # NoMatch
       /\ ret.user \in {r[1], r[2]}

====
